---- MODULE Spec2Model ----
(***************************************************************************)
(* Model of the multi-agent orchestration layer of the finance copilot:    *)
(*   - AgentOrchestrator.analyze_portfolio / get_recommendations           *)
(*     (backend/agents/orchestrator.py), run as asyncio coroutines;        *)
(*   - AgentState.set_result / complete_step and BaseAgent.add_to_memory   *)
(*     (finance-copilot/backend/agents/base_agent.py).                     *)
(*                                                                         *)
(* A request is a coroutine.  One action of the model is the code a        *)
(* coroutine runs between two suspension points (the event loop runs it    *)
(* without interleaving).  The agents' own operations are the environment  *)
(* of the orchestrator: each returns a value or raises.                    *)
(***************************************************************************)
EXTENDS Integers, Sequences, FiniteSets, TLC

VARIABLES
    portfolios_db,      \* routes.portfolio.portfolios_db: id -> portfolio
    portfolio_threads,  \* AgentOrchestrator.portfolio_threads: id -> AgentState
    calls,              \* the requests made so far, in the order they started
    clock,              \* datetime.now(), a logical clock
    agent_calls,        \* number of agent coroutines created so far
    faults,             \* number of agent calls that raised so far
    memory,             \* BaseAgent.memory of each agent
    added,              \* every entry ever passed to add_to_memory, per agent
    llm,                \* BaseAgent.llm is set (the Gemini model was built)
    execs,              \* number of agent operations run so far
    last,               \* what the last agent operation did and returned
    input,              \* the argument of the function under study
    output              \* its return value, once it has run

vars == <<portfolios_db, portfolio_threads, calls, clock, agent_calls, faults,
          memory, added, llm, execs, last, input, output>>

orchVars == <<portfolios_db, portfolio_threads, calls, agent_calls, faults>>

\* The state of one agent operation, and of one function call.
agentVars == <<llm, execs, last>>

funVars == <<input, output>>

----------------------------------------------------------------------------
(* Bounds of the model *)

MaxCalls == 2        \* requests per behaviour
MaxInFlight == 2     \* overlapping requests (SpecConc)
MaxFaults == 2       \* agent calls that raise, per behaviour
BigHoldings == 6     \* holdings of portfolio p1 under Spec
SmallHoldings == 1   \* holdings of portfolio p1 under SpecConc
MaxAdds == 153       \* add_to_memory calls per behaviour (SpecMemory)

(* Program constants *)

EquityLimit == 5     \* symbols[:5], the limit
MemoryLimit == 100   \* len(self.memory) > 100
MemoryKeep == 50     \* self.memory[-50:]
RecLimit == 5        \* recommendations[:5]

----------------------------------------------------------------------------
(* Values *)

Min(a, b) == IF a < b THEN a ELSE b

SymbolPool == <<"AAPL", "MSFT", "GOOGL", "AMZN", "META", "TSLA", "NVDA", "JPM">>

Users == {"u1", "u2"}

\* The caller of the one-after-the-other requests of Spec.
SeqUsers == {"u1"}

\* Portfolio ids a caller may pass; "p0" is never in the store.
CallIds == {"p1", "p2", "p0"}

Agents == {"equity", "news", "market", "risk", "portfolio"}

\* An empty Python dict.
EmptyDict == [k \in {} |-> 0]

\* The {} that the except clause substitutes for a section.
EmptyResult == [kind |-> "empty"]

NoReturn == [kind |-> "none"]

PortfolioNotFound == [kind |-> "error", error |-> "Portfolio not found"]

PortfolioOf(n) ==
    [holdings |-> [i \in 1..n |-> [symbol |-> SymbolPool[i]]]]

StoreOf(n) ==
    ("p1" :> PortfolioOf(n)) @@ ("p2" :> [holdings |-> <<[symbol |-> "IBM"]>>])

----------------------------------------------------------------------------
(* AgentState *)

AgentState ==
    [messages |-> <<>>, context |-> EmptyDict, results |-> EmptyDict,
     current_step |-> "start", completed_steps |-> <<>>]

update_context(state, key, value) ==
    [state EXCEPT !.context = (key :> value) @@ state.context]

\* A variant that keeps the value already stored under the key (setdefault).
set_result_keep(state, key, value) ==
    [state EXCEPT !.results = state.results @@ (key :> value)]

set_result(state, key, value) ==
    [state EXCEPT !.results = (key :> value) @@ state.results]

complete_step(state, step) ==
    [state EXCEPT !.completed_steps = Append(state.completed_steps, step)]

\* A variant that assigns a new map holding only the new thread.
create_only_thread(threads, portfolio_id, user_id, now) ==
    portfolio_id :>
        update_context(
            update_context(
                update_context(AgentState, "portfolio_id", portfolio_id),
                "user_id", user_id),
            "created_at", now)

\* create_portfolio_thread: a fresh AgentState with its three context keys.
create_portfolio_thread(threads, portfolio_id, user_id, now) ==
    (portfolio_id :>
        update_context(
            update_context(
                update_context(AgentState, "portfolio_id", portfolio_id),
                "user_id", user_id),
            "created_at", now))
    @@ threads

\* A variant whose lookup never finds the thread.
HasThreadNever(threads, portfolio_id) ==
    FALSE

\* get_portfolio_thread(...) is not None
HasThread(threads, portfolio_id) ==
    portfolio_id \in DOMAIN threads

----------------------------------------------------------------------------
(* BaseAgent.add_to_memory *)

\* self.memory[-50:]
LastN(s, n) == IF Len(s) <= n THEN s ELSE SubSeq(s, Len(s) - n + 1, Len(s))

\* A variant that cuts as soon as the limit is reached (>= for >).
MemoryAfterAddAtLimit(mem, entry) ==
    LET appended == Append(mem, entry)
    IN IF Len(appended) >= MemoryLimit THEN LastN(appended, MemoryKeep) ELSE appended

\* The memory after add_to_memory(entry): append, then cut when over the limit.
MemoryAfterAdd(mem, entry) ==
    LET appended == Append(mem, entry)
    IN IF Len(appended) > MemoryLimit THEN LastN(appended, MemoryKeep) ELSE appended

\* entry["timestamp"] = now; entry["agent"] = self.name
Stamp(entry, agent, now) ==
    [type |-> entry.type, timestamp |-> now, agent |-> agent]

MemoryEntries == {[type |-> "analysis"]}

Adds == LET RECURSIVE Sum(_)
            Sum(S) == IF S = {} THEN 0
                      ELSE LET a == CHOOSE x \in S : TRUE
                           IN Len(added[a]) + Sum(S \ {a})
        IN Sum(Agents)

\* The agent whose memory SpecMemory exercises.
MemAgents == {"equity"}

add_to_memory(agent, entry) ==
    /\ Adds < MaxAdds
    /\ LET stamped == Stamp(entry, agent, clock)
       IN /\ memory' = [memory EXCEPT ![agent] = MemoryAfterAdd(@, stamped)]
          /\ added' = [added EXCEPT ![agent] = Append(@, stamped)]
    /\ clock' = clock + 1
    /\ UNCHANGED <<orchVars, agentVars, funVars>>

----------------------------------------------------------------------------
(* AgentOrchestrator: the pieces of analyze_portfolio *)

BranchOrder == <<"news", "market", "risk", "health">>

Branches == {"news", "market", "risk", "health"}

\* A variant that awaits the four branches again after the last.
NextBranchAgain(b) ==
    CASE b = "news" -> "market"
      [] b = "market" -> "risk"
      [] b = "risk" -> "health"
      [] OTHER -> "news"

\* The position after b in the order the branches are awaited in.
NextBranch(b) ==
    CASE b = "news" -> "market"
      [] b = "market" -> "risk"
      [] b = "risk" -> "health"
      [] OTHER -> "done"

\* symbols = [h["symbol"] for h in portfolio.get("holdings", [])]
SymbolsOf(portfolio) ==
    [i \in 1..Len(portfolio.holdings) |-> portfolio.holdings[i].symbol]

\* A variant without the [:5].
LaunchedAll(symbols) == symbols

\* symbols[:5]
Launched(symbols) == SubSeq(symbols, 1, Min(Len(symbols), EquityLimit))

\* What one equity task leaves in the gathered list: a StockAnalysis, or the
\* exception it raised (return_exceptions=True).
TaskResult(symbol, outcome) ==
    IF outcome = "ok"
    THEN [kind |-> "StockAnalysis", symbol |-> symbol]
    ELSE [kind |-> "Exception", symbol |-> symbol]

IsException(r) == r.kind = "Exception"

\* equity_results as asyncio.gather returns it: one position per launched task.
GatherResults(symbols, outcomes) ==
    [i \in 1..Len(symbols) |-> TaskResult(symbols[i], outcomes[i])]

\* A variant: the gather without return_exceptions=True.
GatherRaisesFirst(outcomes) == \E k \in DOMAIN outcomes : outcomes[k] = "exc"

\* Whether awaiting the gather raises: never, with return_exceptions=True.
GatherRaises(outcomes) == FALSE

\* [r for r in equity_results if not isinstance(r, Exception)]
HoldingsAnalysis(equity_results) ==
    SelectSeq(equity_results, LAMBDA r : ~IsException(r))

\* The non-empty result of a branch that returned.
BranchValue(b, portfolio_id) == [kind |-> b, portfolio_id |-> portfolio_id]

\* A section of the report: the branch's result, {} after the except clause.
Section(c, b) ==
    IF c.raised THEN EmptyResult ELSE BranchValue(b, c.pid)

\* A variant whose except clause forgets equity_results = [].
EquityResultsKept(c) == GatherResults(c.symbols, c.equity)

\* equity_results at the point the report is compiled.
EquityResultsOf(c) ==
    IF c.raised THEN <<>> ELSE GatherResults(c.symbols, c.equity)

(* LLM output: lines, each with the character class its stripped text starts with *)

Line(first, n) == [first |-> first, text |-> n]

Responses ==
    { <<Line("alpha", 1), Line("digit", 2), Line("blank", 3), Line("dash", 4)>>,
      <<Line("digit", 5), Line("digit", 6), Line("bullet", 7), Line("dash", 8),
        Line("alpha", 9), Line("digit", 10), Line("digit", 11)>> }

IsItem(line) == line.first \in {"digit", "dash", "bullet"}

\* A variant without the [:5].
RecommendationsUncut(response) == SelectSeq(response, IsItem)

\* _generate_recommendations: the item lines of the response, at most 5.
Recommendations(response) ==
    LET items == SelectSeq(response, IsItem)
    IN SubSeq(items, 1, Min(Len(items), RecLimit))

\* The analysis dict of lines 124-137.
Analysis(c, now, response) ==
    [kind |-> "report",
     portfolio_id |-> c.pid,
     analysis_date |-> now,
     holdings_analysis |-> HoldingsAnalysis(EquityResultsOf(c)),
     news_summary |-> Section(c, "news"),
     market_overview |-> Section(c, "market"),
     risk_assessment |-> Section(c, "risk"),
     portfolio_health |-> Section(c, "health"),
     recommendations |-> Recommendations(response)]

\* The dict get_recommendations returns.
RecommendationsAnswer(portfolio_id, analysis, now) ==
    [kind |-> "recommendations",
     portfolio_id |-> portfolio_id,
     recommendations |-> analysis.recommendations,
     generated_at |-> now]

\* _generate_html_report: the fields of the analysis the page shows, with
\* their defaults for the error dict.
HtmlReport(analysis) ==
    IF analysis.kind = "report"
    THEN [kind |-> "html",
          generated |-> [kind |-> "date", at |-> analysis.analysis_date],
          portfolio_health |-> analysis.portfolio_health,
          risk_assessment |-> analysis.risk_assessment,
          market_overview |-> analysis.market_overview,
          recommendations |-> analysis.recommendations]
    ELSE [kind |-> "html",
          generated |-> [kind |-> "N/A"],
          portfolio_health |-> EmptyResult,
          risk_assessment |-> EmptyResult,
          market_overview |-> EmptyResult,
          recommendations |-> <<>>]

\* What the operation that ran analyze_portfolio returns: the analysis
\* itself, the dict of get_recommendations (made one tick later) or the
\* page of generate_report.
Answer(op, pid, analysis, now) ==
    CASE op = "recommendations" -> RecommendationsAnswer(pid, analysis, now + 1)
      [] op = "report" -> HtmlReport(analysis)
      [] OTHER -> analysis

\* A variant that marks a step only the first time.
UpdateStateOnce(state, analysis) ==
    LET stored == set_result(state, "latest_analysis", analysis)
    IN IF \E k \in DOMAIN state.completed_steps :
              state.completed_steps[k] = "full_analysis"
       THEN stored
       ELSE complete_step(stored, "full_analysis")

\* state.set_result("latest_analysis", analysis); state.complete_step("full_analysis")
UpdateState(state, analysis) ==
    complete_step(set_result(state, "latest_analysis", analysis), "full_analysis")

\* A variant that creates the four branch coroutines before the lookup.
LaunchCountEager(found, symbols) == Len(symbols) + Len(BranchOrder)

\* The agent coroutines a call creates (lines 91-106): none when the lookup of
\* line 83 has already returned the error.
LaunchCount(found, symbols) ==
    IF found THEN Len(symbols) + Len(BranchOrder) ELSE 0

\* A variant that never finds the cached analysis.
CachedNever(threads, portfolio_id) == FALSE

\* state and "latest_analysis" in state.results
Cached(threads, portfolio_id) ==
    /\ HasThread(threads, portfolio_id)
    /\ "latest_analysis" \in DOMAIN threads[portfolio_id].results

InFlight == Cardinality({i \in DOMAIN calls : calls[i].pc # "done"})

NewCall(op, pid) ==
    [op |-> op, pid |-> pid, pc |-> "done", symbols |-> <<>>,
     equity |-> <<>>, branch |-> [b \in Branches |-> "none"], raised |-> FALSE,
     ret |-> NoReturn]

\* analyze_portfolio from its first line to its first await (lines 74-110).
BeginAnalysis(op, pid, uid) ==
    LET create == ~HasThread(portfolio_threads, pid)
        found == pid \in DOMAIN portfolios_db
        symbols == IF found THEN Launched(SymbolsOf(portfolios_db[pid])) ELSE <<>>
    IN /\ portfolio_threads' =
              IF create
              THEN create_portfolio_thread(portfolio_threads, pid, uid, clock)
              ELSE portfolio_threads
       /\ clock' = IF create THEN clock + 1 ELSE clock
       /\ calls' = Append(calls,
              IF found
              THEN [NewCall(op, pid) EXCEPT
                       !.pc = "gather",
                       !.symbols = symbols,
                       !.equity = [i \in 1..Len(symbols) |-> "pending"],
                       !.branch = [b \in Branches |-> "created"]]
              ELSE [NewCall(op, pid) EXCEPT
                       !.ret = Answer(op, pid, PortfolioNotFound, clock)])
       /\ agent_calls' = agent_calls + LaunchCount(found, symbols)
       /\ UNCHANGED <<portfolios_db, faults, memory, added>>

\* A caller invokes analyze_portfolio(portfolio_id, user_id).
analyze_portfolio(limit, pid, uid) ==
    /\ Len(calls) < MaxCalls
    /\ InFlight < limit
    /\ BeginAnalysis("analyze", pid, uid)
    /\ UNCHANGED <<agentVars, funVars>>

\* get_recommendations from its first line to its first await, or to its
\* return (lines 149-166).
BeginRecommendations(pid, uid) ==
    IF pid \notin DOMAIN portfolios_db
    THEN /\ calls' = Append(calls,
                [NewCall("recommendations", pid) EXCEPT
                    !.ret = PortfolioNotFound])
         /\ UNCHANGED <<portfolios_db, portfolio_threads, clock, agent_calls,
                        faults, memory, added>>
    ELSE IF Cached(portfolio_threads, pid)
         THEN /\ calls' = Append(calls,
                     [NewCall("recommendations", pid) EXCEPT
                         !.ret = RecommendationsAnswer(pid,
                             portfolio_threads[pid].results["latest_analysis"],
                             clock)])
              /\ clock' = clock + 1
              /\ UNCHANGED <<portfolios_db, portfolio_threads, agent_calls,
                             faults, memory, added>>
         ELSE BeginAnalysis("recommendations", pid, uid)

\* A caller invokes get_recommendations(portfolio_id, user_id).
get_recommendations(limit, pid, uid) ==
    /\ Len(calls) < MaxCalls
    /\ InFlight < limit
    /\ BeginRecommendations(pid, uid)
    /\ UNCHANGED <<agentVars, funVars>>

\* How an awaited agent call ends: it returns or it raises.
Outcomes == {"ok", "exc"}

\* One of the gathered equity tasks ends: analyze(symbol) returns or raises.
\* The tasks end in any order.  What the analysis does inside the equity agent
\* (its data fetches, its LLM call, its memory entry) is the agent's own
\* state, modelled by add_to_memory; the orchestrator sees the outcome.
EquityTaskDone(i, k, outcome) ==
    /\ calls[i].pc = "gather"
    /\ calls[i].equity[k] = "pending"
    /\ outcome = "exc" => faults < MaxFaults
    /\ calls' = [calls EXCEPT ![i].equity[k] = outcome]
    /\ faults' = IF outcome = "exc" THEN faults + 1 ELSE faults
    /\ UNCHANGED <<portfolios_db, portfolio_threads, clock, agent_calls,
                   memory, added, agentVars, funVars>>

\* Lines 124-143: compile the report, store it, mark the step, return.  The
\* recommendation call awaits think(), which has no suspension point.  The
\* coroutine's locals end with it: the finished call keeps its return value
\* and whether the except clause ran.
Finish(i, c, response) ==
    LET analysis == Analysis(c, clock, response)
        isRec == c.op = "recommendations"
    IN /\ portfolio_threads' =
              [portfolio_threads EXCEPT ![c.pid] = UpdateState(@, analysis)]
       /\ calls' = [calls EXCEPT ![i] =
              [NewCall(c.op, c.pid) EXCEPT
                  !.raised = c.raised,
                  !.ret = Answer(c.op, c.pid, analysis, clock)]]
       /\ clock' = IF isRec THEN clock + 2 ELSE clock + 1

\* A variant that awaits the failed branch again instead of giving up.
OnBatchErrorRetry(i, c, response) ==
    /\ calls' = [calls EXCEPT ![i] = [c EXCEPT !.branch[c.pc] = "running"]]
    /\ UNCHANGED <<portfolio_threads, clock>>

\* The except clause of lines 115-121, then the rest of the function.
OnBatchError(i, c, response) ==
    Finish(i, [c EXCEPT !.raised = TRUE], response)

\* The gather completes (line 110) and the news coroutine is started (line 111).
GatherReturn(i, response) ==
    /\ calls[i].pc = "gather"
    /\ \A k \in DOMAIN calls[i].equity : calls[i].equity[k] \in Outcomes
    /\ IF GatherRaises(calls[i].equity)
       THEN OnBatchError(i, calls[i], response)
       ELSE /\ calls' = [calls EXCEPT ![i].pc = "news",
                                      ![i].branch["news"] = "running"]
            /\ UNCHANGED <<portfolio_threads, clock>>
    /\ UNCHANGED <<portfolios_db, agent_calls, faults, memory, added,
                   agentVars, funVars>>

\* The awaited branch (lines 111-114) returns or raises; the coroutine runs on
\* to its next await, or to its return.
BranchDone(i, outcome, response) ==
    /\ calls[i].pc \in Branches
    /\ calls[i].branch[calls[i].pc] = "running"
    /\ outcome = "exc" => faults < MaxFaults
    /\ LET b == calls[i].pc
           c == [calls[i] EXCEPT !.branch[b] = outcome]
       IN IF outcome = "exc"
          THEN OnBatchError(i, c, response)
          ELSE IF NextBranch(b) = "done"
               THEN Finish(i, c, response)
               ELSE /\ calls' = [calls EXCEPT ![i] =
                          [c EXCEPT !.pc = NextBranch(b),
                                    !.branch[NextBranch(b)] = "running"]]
                    /\ UNCHANGED <<portfolio_threads, clock>>
    /\ faults' = IF outcome = "exc" THEN faults + 1 ELSE faults
    /\ UNCHANGED <<portfolios_db, agent_calls, memory, added,
                   agentVars, funVars>>

\* The steps of the requests in flight, for agent calls that end in one of
\* the given outcomes.
StepsWith(outcomes, responses) ==
    \/ \E i \in DOMAIN calls : \E k \in DOMAIN calls[i].equity, o \in outcomes :
           EquityTaskDone(i, k, o)
    \/ \E i \in DOMAIN calls, r \in responses : GatherReturn(i, r)
    \/ \E i \in DOMAIN calls, o \in outcomes, r \in responses : BranchDone(i, o, r)

Steps(responses) == StepsWith(Outcomes, responses)

\* Requests made one after the other.
Next ==
    \/ \E pid \in CallIds, uid \in SeqUsers : analyze_portfolio(1, pid, uid)
    \/ \E pid \in CallIds, uid \in SeqUsers : get_recommendations(1, pid, uid)
    \/ Steps(Responses)

\* The ids and the LLM output of the overlapping requests of SpecConc.
ConcIds == {"p1", "p0"}

ConcResponses == {<<Line("digit", 1), Line("alpha", 2), Line("dash", 3)>>}

\* Requests that may overlap.
NextConc ==
    \/ \E pid \in ConcIds, uid \in Users : analyze_portfolio(MaxInFlight, pid, uid)
    \/ \E pid \in ConcIds, uid \in Users : get_recommendations(MaxInFlight, pid, uid)
    \/ Steps(ConcResponses)

----------------------------------------------------------------------------
(* Initial states *)

InitWith(store) ==
    /\ portfolios_db = store
    /\ portfolio_threads = EmptyDict
    /\ calls = <<>>
    /\ clock = 0
    /\ agent_calls = 0
    /\ faults = 0
    /\ memory = [a \in Agents |-> <<>>]
    /\ added = [a \in Agents |-> <<>>]

\* No agent operation has run; the LLM was built.
IdleAgents ==
    /\ llm = TRUE
    /\ execs = 0
    /\ last = NoReturn

\* No function is under study.
IdleFun ==
    /\ input = NoReturn
    /\ output = NoReturn

Init == InitWith(StoreOf(BigHoldings)) /\ IdleAgents /\ IdleFun

InitConc == InitWith(StoreOf(SmallHoldings)) /\ IdleAgents /\ IdleFun

NextMemory == \E a \in MemAgents, e \in MemoryEntries : add_to_memory(a, e)

SpecMemory == Init /\ [][NextMemory]_vars

Spec == Init /\ [][Next]_vars

SpecConc == InitConc /\ [][NextConc]_vars

----------------------------------------------------------------------------
(* Claims about BaseAgent.add_to_memory, checked under SpecMemory *)

IsSuffix(s, t) == Len(s) <= Len(t) /\ s = LastN(t, Len(s))

C4_State ==
    \A a \in Agents :
        /\ Len(memory[a]) <= MemoryLimit
        /\ IsSuffix(memory[a], added[a])
        /\ Len(added[a]) = MemoryLimit + 1 =>
               /\ Len(memory[a]) = MemoryKeep
               /\ memory[a] = SubSeq(added[a], 52, 101)

C4_Step ==
    \A a \in Agents :
        added'[a] # added[a] =>
            IF Len(memory[a]) + 1 > MemoryLimit
            THEN memory'[a] = LastN(added'[a], MemoryKeep)
            ELSE memory'[a] = Append(memory[a], added'[a][Len(added'[a])])

\* C4: after every add_to_memory call the memory has at most 100 entries, is
\* a suffix (in insertion order) of all entries ever added, is cut to the 50
\* most recent entries whenever an append takes it over 100, and after 101
\* calls from empty holds exactly the 52nd to 101st entries.
C4_MemoryBound == [](C4_State) /\ [][C4_Step]_vars

C4_Witness ==
    /\ Len(added["equity"]) = MemoryLimit + 1
    /\ Len(memory["equity"]) = MemoryKeep
    /\ memory["equity"][1] = added["equity"][52]

----------------------------------------------------------------------------
(* Claims about the orchestrator *)

\* Call i, in flight before the step, has returned after it.
Returns(i) == calls[i].pc # "done" /\ calls'[i].pc = "done"

\* A call is started by the step.
Starts == Len(calls') = Len(calls) + 1

\* results["latest_analysis"] of a portfolio id, NoReturn when there is none.
Latest(threads, pid) ==
    IF pid \in DOMAIN threads /\ "latest_analysis" \in DOMAIN threads[pid].results
    THEN threads[pid].results["latest_analysis"]
    ELSE NoReturn

StepsOf(threads, pid) ==
    IF pid \in DOMAIN threads THEN threads[pid].completed_steps ELSE <<>>

SectionOf(report, b) ==
    CASE b = "news" -> report.news_summary
      [] b = "market" -> report.market_overview
      [] b = "risk" -> report.risk_assessment
      [] b = "health" -> report.portfolio_health

StockAnalysis(symbol) == [kind |-> "StockAnalysis", symbol |-> symbol]

\* The first five symbols of the stored portfolio.
FirstFive(pid) ==
    LET h == portfolios_db[pid].holdings
    IN [k \in 1..Min(Len(h), 5) |-> h[k].symbol]

\* The position of a symbol among the holdings of the stored portfolio.
HoldingIndex(pid, symbol) ==
    CHOOSE k \in DOMAIN portfolios_db[pid].holdings :
        portfolios_db[pid].holdings[k].symbol = symbol

Copies(n, x) == [k \in 1..n |-> x]

C1_Step ==
    \A i \in DOMAIN calls :
        LET c == calls[i]
            failed == {k \in DOMAIN c.equity : c.equity[k] = "exc"}
        IN (Returns(i) /\ faults' = faults /\ Cardinality(failed) = 1) =>
            LET k == CHOOSE x \in failed : TRUE
                syms == FirstFive(c.pid)
                report == Latest(portfolio_threads', c.pid)
            IN /\ report.kind = "report"
               /\ c.op = "analyze" => calls'[i].ret = report
               /\ report.holdings_analysis =
                      [j \in 1..(Len(syms) - 1) |->
                          StockAnalysis(syms[IF j < k THEN j ELSE j + 1])]
               /\ \A b \in Branches :
                      /\ SectionOf(report, b) # EmptyResult
                      /\ SectionOf(report, b) = BranchValue(b, c.pid)

\* C1: when exactly one of the launched per-holding equity analyses raises
\* (and no other branch does), the call returns a report whose
\* holdings_analysis is the results of all the other launched holdings and
\* whose news, market, risk and health sections are those branches' non-empty
\* results.
C1_PartialFailure == [][C1_Step]_vars

C1_Witness ==
    \E i \in DOMAIN calls :
        /\ calls[i].op = "analyze" /\ calls[i].pid = "p1" /\ calls[i].pc = "done"
        /\ calls[i].ret.kind = "report"
        /\ Len(calls[i].ret.holdings_analysis) = EquityLimit - 1
        /\ \A b \in Branches : SectionOf(calls[i].ret, b) # EmptyResult

C2_Step ==
    \A i \in DOMAIN calls :
        (calls[i].pc \in Branches /\ calls'[i] # calls[i] /\ faults' = faults + 1) =>
            LET report == Latest(portfolio_threads', calls[i].pid)
            IN /\ calls'[i].pc = "done"
               /\ calls'[i].ret.kind \in {"report", "recommendations"}
               /\ calls[i].op = "analyze" => calls'[i].ret = report
               /\ report.kind = "report"
               /\ report.holdings_analysis = <<>>
               /\ \A b \in Branches : SectionOf(report, b) = EmptyResult

\* C2: an exception raised while the branches are awaited is not propagated:
\* the call returns a report in which holdings_analysis is empty and the
\* news, market, risk and health sections are all the empty default.
C2_FailOpen == [][C2_Step]_vars

C2_Witness ==
    \E i \in DOMAIN calls :
        /\ calls[i].op = "analyze" /\ calls[i].pid = "p1" /\ calls[i].pc = "done"
        /\ calls[i].raised
        /\ calls[i].ret.kind = "report"
        /\ calls[i].ret.holdings_analysis = <<>>
        /\ \A b \in Branches : SectionOf(calls[i].ret, b) = EmptyResult

C3_Step ==
    \A i \in DOMAIN calls :
        (calls[i].pc \in Branches /\ calls'[i] # calls[i] /\ faults' = faults + 1) =>
            LET c == calls[i]
                report == Latest(portfolio_threads', c.pid)
            IN /\ SectionOf(report, c.pc) = EmptyResult
               /\ \A b \in Branches :
                      c.branch[b] = "ok" => SectionOf(report, b) = BranchValue(b, c.pid)
               /\ \A k \in DOMAIN c.equity :
                      c.equity[k] = "ok" =>
                          \E j \in DOMAIN report.holdings_analysis :
                              report.holdings_analysis[j] = StockAnalysis(c.symbols[k])

\* C3: when one of the news, market, risk or health branches raises, only
\* that branch's section is the empty default; the sections of the branches
\* that completed and the per-holding equity results are kept in the report.
C3_BranchFailureKeepsOthers == [][C3_Step]_vars

C5_Step ==
    (Starts /\ Len(calls) >= 1) =>
        LET prev == calls[Len(calls)]
            new == calls'[Len(calls')]
        IN (/\ prev.op = "recommendations" /\ new.op = "recommendations"
            /\ prev.pid = new.pid /\ prev.pid \in DOMAIN portfolios_db
            /\ prev.pc = "done" /\ portfolios_db' = portfolios_db) =>
               /\ new.pc = "done"
               /\ new.ret.kind = "recommendations"
               /\ new.ret.recommendations = prev.ret.recommendations
               /\ agent_calls' = agent_calls
               /\ Latest(portfolio_threads', new.pid) = Latest(portfolio_threads, new.pid)
               /\ StepsOf(portfolio_threads', new.pid) = StepsOf(portfolio_threads, new.pid)

\* C5: the second of two consecutive get_recommendations calls for the same
\* existing portfolio returns the same recommendation list as the first,
\* launches no agent call and leaves latest_analysis and completed_steps as
\* they were.
C5_RecommendationsCached == [][C5_Step]_vars

C5_Witness ==
    /\ Len(calls) >= 2
    /\ calls[1].op = "recommendations" /\ calls[2].op = "recommendations"
    /\ calls[1].pid = "p1" /\ calls[2].pid = "p1"
    /\ calls[1].pc = "done" /\ calls[2].pc = "done"
    /\ Len(calls[1].ret.recommendations) > 0
    /\ calls[2].ret.recommendations = calls[1].ret.recommendations
    /\ calls[2].ret.generated_at # calls[1].ret.generated_at

C6_Step ==
    \A i \in DOMAIN calls :
        Returns(i) =>
            LET pid == calls[i].pid
                report == Latest(portfolio_threads', pid)
            IN /\ report.kind = "report"
               /\ calls[i].op = "analyze" => calls'[i].ret = report
               /\ StepsOf(portfolio_threads', pid) =
                      Append(StepsOf(portfolio_threads, pid), "full_analysis")

C6_State ==
    \A pid \in DOMAIN portfolios_db :
        LET on == {i \in DOMAIN calls : calls[i].pid = pid}
            returned == {i \in on : calls[i].pc = "done"}
        IN (\A i \in on : calls[i].op = "analyze") =>
               /\ StepsOf(portfolio_threads, pid) =
                      Copies(Cardinality(returned), "full_analysis")
               /\ returned # {} =>
                      \E n \in returned :
                          /\ \A i \in returned : i <= n
                          /\ Latest(portfolio_threads, pid) = calls[n].ret

\* C6: every analyze_portfolio call that returns a report has stored that
\* report under results["latest_analysis"] and appended "full_analysis" to
\* completed_steps once; after n calls made one after the other
\* completed_steps holds "full_analysis" n times and latest_analysis is the
\* report of the n-th call.
C6_StoresEveryReport == [](C6_State) /\ [][C6_Step]_vars

C6_Witness ==
    /\ Len(calls) >= 2
    /\ calls[1].op = "analyze" /\ calls[2].op = "analyze"
    /\ calls[1].pid = "p1" /\ calls[2].pid = "p1"
    /\ calls[1].pc = "done" /\ calls[2].pc = "done"
    /\ StepsOf(portfolio_threads, "p1") = <<"full_analysis", "full_analysis">>
    /\ Latest(portfolio_threads, "p1") = calls[2].ret
    /\ calls[1].ret # calls[2].ret

C7_Step ==
    Starts =>
        LET new == calls'[Len(calls')]
        IN new.pid \notin DOMAIN portfolios_db =>
               /\ new.pc = "done"
               /\ new.ret = PortfolioNotFound
               /\ agent_calls' = agent_calls
               /\ \A q \in CallIds :
                      /\ Latest(portfolio_threads', q) = Latest(portfolio_threads, q)
                      /\ StepsOf(portfolio_threads', q) = StepsOf(portfolio_threads, q)

\* C7: analyze_portfolio and get_recommendations called with an id that is
\* not in the portfolio store return the "Portfolio not found" error at once,
\* launch no agent call, store no latest_analysis and mark no step.
C7_PortfolioNotFound == [][C7_Step]_vars

C7_Witness ==
    /\ \E i \in DOMAIN calls :
           /\ calls[i].op = "analyze" /\ calls[i].pid = "p0"
           /\ calls[i].ret = PortfolioNotFound
    /\ \E i \in DOMAIN calls :
           /\ calls[i].op = "recommendations" /\ calls[i].pid = "p0"
           /\ calls[i].ret = PortfolioNotFound
    /\ agent_calls = 0

\* C8: whenever analyze_portfolio waits (here: for the gathered equity
\* analyses) all of its branches have been started, so the news, market, risk
\* and health branches can work while the equity analyses are unfinished.
C8_AllBranchesStartedBeforeWaiting ==
    \A i \in DOMAIN calls :
        calls[i].pc = "gather" =>
            \A b \in Branches : calls[i].branch[b] # "created"

C9_Step ==
    \A i \in DOMAIN calls :
        Returns(i) =>
            LET c == calls[i]
                syms == FirstFive(c.pid)
                h == Latest(portfolio_threads', c.pid).holdings_analysis
            IN /\ \A j \in DOMAIN h :
                      /\ h[j].kind = "StockAnalysis"
                      /\ \E k \in DOMAIN syms :
                             h[j].symbol = syms[k] /\ c.equity[k] = "ok"
               /\ \A j1, j2 \in DOMAIN h :
                      j1 < j2 =>
                          HoldingIndex(c.pid, h[j1].symbol) < HoldingIndex(c.pid, h[j2].symbol)
               /\ faults' = faults =>
                      \A k \in DOMAIN syms :
                          c.equity[k] = "ok" => \E j \in DOMAIN h : h[j].symbol = syms[k]

\* C9: holdings_analysis holds analyses only of the first 5 holdings of the
\* portfolio, at most one per holding, in the order of the holdings list
\* whatever order the analyses completed in, without the holdings whose
\* analysis raised (and, when the batch did not raise, with all the others).
C9_HoldingsOrder == [][C9_Step]_vars

C9_Witness ==
    \E i \in DOMAIN calls :
        /\ calls[i].pid = "p1" /\ calls[i].pc = "done"
        /\ Len(portfolios_db["p1"].holdings) > EquityLimit
        /\ calls[i].ret.kind = "report"
        /\ Len(calls[i].ret.holdings_analysis) = EquityLimit - 2
        /\ calls[i].ret.holdings_analysis[1].symbol = "MSFT"
        /\ calls[i].ret.holdings_analysis[3].symbol = "META"

C10_State ==
    \A pid \in DOMAIN portfolios_db :
        LET on == {i \in DOMAIN calls : calls[i].pid = pid}
            returned == {i \in on : calls[i].pc = "done"}
        IN (\A i \in on : calls[i].op = "analyze") =>
               /\ \A i \in returned : calls[i].ret.kind = "report"
               /\ StepsOf(portfolio_threads, pid) =
                      Copies(Cardinality(returned), "full_analysis")
               /\ returned # {} =>
                      \E w \in returned :
                          /\ Latest(portfolio_threads, pid) = calls[w].ret
                          /\ \A i \in returned :
                                 calls[i].ret.analysis_date <= calls[w].ret.analysis_date

C10_Step ==
    \A i \in DOMAIN calls :
        (Returns(i) /\ calls[i].op = "analyze") =>
            Latest(portfolio_threads', calls[i].pid) = calls'[i].ret

\* C10: overlapping analyze_portfolio requests for one portfolio id all return
\* reports; each, when it returns, has overwritten latest_analysis with its
\* own report and appended its own "full_analysis", so latest_analysis is the
\* report of the request that wrote last.
C10_LastWriterWins == [](C10_State) /\ [][C10_Step]_vars

\* Two requests overlapped and the one that started first wrote last.
C10_Witness ==
    /\ Len(calls) >= 2
    /\ calls[1].op = "analyze" /\ calls[2].op = "analyze"
    /\ calls[1].pid = "p1" /\ calls[2].pid = "p1"
    /\ calls[1].pc = "done" /\ calls[2].pc = "done"
    /\ calls[1].ret.kind = "report" /\ calls[2].ret.kind = "report"
    /\ Latest(portfolio_threads, "p1") = calls[1].ret
    /\ calls[1].ret # calls[2].ret
    /\ StepsOf(portfolio_threads, "p1") = <<"full_analysis", "full_analysis">>

----------------------------------------------------------------------------
(* The agents: BaseAgent.think, the peers of a symbol, and the operations  *)
(* that execute(task) dispatches to.  An operation is given as its effect: *)
(* the services it called, the entries it passed to add_to_memory and what *)
(* it returned.                                                            *)

MaxExecs == 2     \* agent operations per behaviour (SpecAgents)

PeerLimit == 4    \* [:4]
NewsLimit == 10   \* symbols[:10]

\* s[:n]
Take(s, n) == SubSeq(s, 1, Min(Len(s), n))

\* str.upper() on the ticker symbols the model passes.
upper(symbol) ==
    CASE symbol = "aapl" -> "AAPL"
      [] symbol = "spy" -> "SPY"
      [] symbol = "tsla" -> "TSLA"
      [] OTHER -> symbol

\* What the LLM backend does with one generate_content call.
Backends == {"text", "fails"}

\* A variant of think without the try/except around generate_content.
think_unguarded(ready, backend) ==
    IF ~ready
    THEN [kind |-> "text", text |-> "LLM not initialized"]
    ELSE IF backend = "fails"
         THEN [kind |-> "Exception", symbol |-> "generate_content"]
         ELSE [kind |-> "text", text |-> "response.text"]

\* BaseAgent.think: the generated text, or the text of the failure.
think(ready, backend) ==
    IF ~ready
    THEN [kind |-> "text", text |-> "LLM not initialized"]
    ELSE IF backend = "fails"
         THEN [kind |-> "text", text |-> "Error generating response: e"]
         ELSE [kind |-> "text", text |-> "response.text"]

\* sector_etfs.get(sector, [])
sector_etfs(sector) ==
    CASE sector = "Technology" -> <<"MSFT", "AAPL", "GOOGL", "META", "NVDA">>
      [] sector = "Financial Services" -> <<"JPM", "BAC", "WFC", "GS", "MS">>
      [] sector = "Healthcare" -> <<"JNJ", "UNH", "PFE", "ABBV", "MRK">>
      [] sector = "Consumer Cyclical" -> <<"AMZN", "TSLA", "HD", "NKE", "MCD">>
      [] sector = "Communication Services" ->
             <<"GOOGL", "META", "DIS", "NFLX", "CMCSA">>
      [] sector = "Industrials" -> <<"HON", "UPS", "CAT", "BA", "GE">>
      [] sector = "Energy" -> <<"XOM", "CVX", "COP", "SLB", "EOG">>
      [] OTHER -> <<>>

\* What yfinance answers for ticker.info: a sector, no sector (""), or an
\* exception.
Infos == {"Technology", "Financial Services", "Healthcare", "Consumer Cyclical",
          "Communication Services", "Industrials", "Energy", "", "Exception"}

\* MarketDataService.get_peers: the sector's list without the symbol, cut to
\* four; [] when the lookup raises.
get_peers(symbol, info) ==
    IF info = "Exception"
    THEN <<>>
    ELSE Take(SelectSeq(sector_etfs(info), LAMBDA p : p # upper(symbol)), PeerLimit)

\* peer_map.get(symbol, ["SPY"])
get_default_peers(symbol) ==
    CASE symbol = "AAPL" -> <<"MSFT", "GOOGL", "META", "AMZN">>
      [] symbol = "MSFT" -> <<"AAPL", "GOOGL", "ORCL", "CRM">>
      [] symbol = "GOOGL" -> <<"META", "MSFT", "AMZN", "AAPL">>
      [] symbol = "AMZN" -> <<"WMT", "EBAY", "SHOP", "TGT">>
      [] symbol = "TSLA" -> <<"F", "GM", "RIVN", "NIO">>
      [] OTHER -> <<"SPY">>

\* A variant that consults the static table before the provider.
ResolvePeersTableFirst(symbol, info) ==
    IF get_default_peers(symbol) # <<"SPY">>
    THEN get_default_peers(symbol)
    ELSE IF get_peers(symbol, info) # <<>>
         THEN get_peers(symbol, info)
         ELSE <<"SPY">>

\* Lines 146-150 of compare_peers: the provider's peers, the defaults when
\* there are none.  symbol is already in upper case.
ResolvePeers(symbol, info) ==
    LET peers == get_peers(symbol, info)
    IN IF peers = <<>> THEN get_default_peers(symbol) ELSE peers

----------------------------------------------------------------------------
(* RiskProfilingAgent: the numbers of assess_portfolio_risk.  Values of     *)
(* holdings and totals are integers; a percentage that the code holds as a *)
(* float is held here as a fraction over total_value, and compared by      *)
(* cross-multiplication (total_value > 0 wherever a fraction is used).     *)

HhiWell == 1000       \* hhi < 1000
HhiModerate == 2500   \* hhi < 2500
TopHigh == 30         \* top_weight > 30
TopModerate == 20     \* top_weight > 20

RECURSIVE SumSeq(_)
SumSeq(s) == IF s = <<>> THEN 0 ELSE Head(s) + SumSeq(Tail(s))

RECURSIVE MaxSeq(_)
MaxSeq(s) == IF Len(s) = 1 THEN s[1] ELSE LET m == MaxSeq(Tail(s))
                                          IN IF s[1] >= m THEN s[1] ELSE m

\* [h.get("current_value", 0) for h in holdings]
ValuesOf(holdings) == [i \in 1..Len(holdings) |-> holdings[i].current_value]

\* hhi = sum(w ** 2 for w in weights), weights in percent: the fraction
\* num / den, with den > 0.
Hhi(holdings, total_value) ==
    IF total_value > 0
    THEN [num |-> 10000 * SumSeq([i \in 1..Len(holdings) |->
                       holdings[i].current_value * holdings[i].current_value]),
          den |-> total_value * total_value]
    ELSE [num |-> 0, den |-> 1]

\* A variant with <= for the second threshold.
assess_diversification_le(holdings, total_value) ==
    LET hhi == Hhi(holdings, total_value)
    IN IF hhi.num < HhiWell * hhi.den
       THEN [num_holdings |-> Len(holdings), hhi |-> hhi,
             diversification_level |-> "well_diversified",
             diversification_score |-> 9]
       ELSE IF hhi.num <= HhiModerate * hhi.den
            THEN [num_holdings |-> Len(holdings), hhi |-> hhi,
                  diversification_level |-> "moderately_diversified",
                  diversification_score |-> 6]
            ELSE [num_holdings |-> Len(holdings), hhi |-> hhi,
                  diversification_level |-> "concentrated",
                  diversification_score |-> 3]

\* _assess_diversification
assess_diversification(holdings, total_value) ==
    LET hhi == Hhi(holdings, total_value)
    IN IF hhi.num < HhiWell * hhi.den
       THEN [num_holdings |-> Len(holdings), hhi |-> hhi,
             diversification_level |-> "well_diversified",
             diversification_score |-> 9]
       ELSE IF hhi.num < HhiModerate * hhi.den
            THEN [num_holdings |-> Len(holdings), hhi |-> hhi,
                  diversification_level |-> "moderately_diversified",
                  diversification_score |-> 6]
            ELSE [num_holdings |-> Len(holdings), hhi |-> hhi,
                  diversification_level |-> "concentrated",
                  diversification_score |-> 3]

\* _assess_concentration: the weight of the largest holding decides.
assess_concentration(holdings, total_value) ==
    IF holdings = <<>> \/ total_value = 0
    THEN [top_holding_weight |-> 0, top_3_weight |-> 0]
    ELSE LET top == MaxSeq(ValuesOf(holdings))
         IN [top_value |-> top,
             concentration_risk |->
                 IF top * 100 > TopHigh * total_value THEN "high"
                 ELSE IF top * 100 > TopModerate * total_value THEN "moderate"
                 ELSE "low"]

\* dict.get(key, default)
Get(d, key, default) == IF key \in DOMAIN d THEN d[key] ELSE default

\* round(n / d) for d > 0, halves to the even neighbour.
RoundDiv(n, d) ==
    LET q == n \div d
        r == n % d
    IN IF 2 * r > d \/ (2 * r = d /\ q % 2 = 1) THEN q + 1 ELSE q

\* What get_historical_data gives for the holdings of one assessment: prices
\* whose annualized volatility is this many percent, or nothing (an empty
\* list, also after an exception).
Histories ==
    {[kind |-> "prices", volatility |-> v] : v \in {0, 15, 25, 40}}
        \cup {[kind |-> "none"]}

\* _calculate_risk_metrics: estimated_volatility in hundredths of a percent,
\* round(weighted_volatility * 100, 2).
calculate_risk_metrics(holdings, total_value, history) ==
    [estimated_volatility |->
        IF history.kind = "none" \/ total_value <= 0
        THEN 0
        ELSE RoundDiv(history.volatility * SumSeq(ValuesOf(holdings)) * 100,
                      total_value)]

\* _calculate_risk_score, in tenths: 5, the volatility band, (5 - div_score)/2,
\* the concentration band, rounded to one decimal and clamped to [1, 10].
calculate_risk_score(risk_metrics, diversification, concentration) ==
    LET vol == Get(risk_metrics, "estimated_volatility", 1500)
        div_score == Get(diversification, "diversification_score", 5)
        risk == Get(concentration, "concentration_risk", "None")
        score == 50 + (IF vol > 3000 THEN 20 ELSE IF vol > 2000 THEN 10
                          ELSE IF vol < 1000 THEN -10 ELSE 0)
                    + (5 - div_score) * 5
                    + (IF risk = "high" THEN 20
                          ELSE IF risk = "moderate" THEN 10 ELSE 0)
    IN IF score > 100 THEN 100 ELSE IF score < 10 THEN 10 ELSE score

----------------------------------------------------------------------------
(* Text: a Python str is a sequence of characters. *)

Lowered ==
    [A |-> "a", B |-> "b", C |-> "c", D |-> "d", E |-> "e", F |-> "f", G
    |-> "g", H |-> "h", I |-> "i", J |-> "j", K |-> "k", L |-> "l", M |->
    "m", N |-> "n", O |-> "o", P |-> "p", Q |-> "q", R |-> "r", S |-> "s",
    T |-> "t", U |-> "u", V |-> "v", W |-> "w", X |-> "x", Y |-> "y", Z
    |-> "z"]

\* str.lower()
lower(text) ==
    [i \in 1..Len(text) |->
        IF text[i] \in DOMAIN Lowered THEN Lowered[text[i]] ELSE text[i]]

\* fragment in text
Has(text, fragment) ==
    \E i \in 1..(Len(text) - Len(fragment) + 1) :
        SubSeq(text, i, i + Len(fragment) - 1) = fragment

\* The texts made of at most n pieces of a vocabulary.
RECURSIVE Texts(_, _)
Texts(pieces, n) ==
    IF n = 0 THEN {<<>>}
    ELSE LET shorter == Texts(pieces, n - 1)
         IN shorter \cup {t \o p : t \in shorter, p \in pieces}

strong_buy == <<"s", "t", "r", "o", "n", "g", " ", "b", "u", "y">>
strong_sell == <<"s", "t", "r", "o", "n", "g", " ", "s", "e", "l", "l">>
buy == <<"b", "u", "y">>
sell == <<"s", "e", "l", "l">>

\* A variant that looks for the short fragments first.
extract_recommendation_short_first(analysis) ==
    LET analysis_lower == lower(analysis)
    IN IF Has(analysis_lower, buy) THEN "buy"
       ELSE IF Has(analysis_lower, sell) THEN "sell"
       ELSE IF Has(analysis_lower, strong_buy) THEN "strong_buy"
       ELSE IF Has(analysis_lower, strong_sell) THEN "strong_sell"
       ELSE "hold"

\* _extract_recommendation
extract_recommendation(analysis) ==
    LET analysis_lower == lower(analysis)
    IN IF Has(analysis_lower, strong_buy) THEN "strong_buy"
       ELSE IF Has(analysis_lower, strong_sell) THEN "strong_sell"
       ELSE IF Has(analysis_lower, buy) THEN "buy"
       ELSE IF Has(analysis_lower, sell) THEN "sell"
       ELSE "hold"

\* any(word in message_lower for word in words)
HasAny(text, words) == \E word \in words : Has(text, word)

NewsWords ==
    {<<"n", "e", "w", "s">>,
     <<"h", "e", "a", "d", "l", "i", "n", "e">>,
     <<"a", "r", "t", "i", "c", "l", "e">>}

RiskWords ==
    {<<"r", "i", "s", "k">>,
     <<"v", "o", "l", "a", "t", "i", "l", "i", "t", "y">>,
     <<"d", "r", "a", "w", "d", "o", "w", "n">>}

MarketWords ==
    {<<"t", "r", "e", "n", "d">>,
     <<"t", "e", "c", "h", "n", "i", "c", "a", "l">>,
     <<"c", "h", "a", "r", "t">>,
     <<"p", "r", "i", "c", "e">>}

PortfolioWords ==
    {<<"p", "o", "r", "t", "f", "o", "l", "i", "o">>,
     <<"a", "l", "l", "o", "c", "a", "t", "i", "o", "n">>,
     <<"r", "e", "b", "a", "l", "a", "n", "c", "e">>}

\* A variant that looks for the risk words before the news words.
route_query_risk_first(message) ==
    LET message_lower == lower(message)
    IN IF HasAny(message_lower, RiskWords) THEN "risk"
       ELSE IF HasAny(message_lower, NewsWords) THEN "news"
       ELSE IF HasAny(message_lower, MarketWords) THEN "market"
       ELSE IF HasAny(message_lower, PortfolioWords) THEN "portfolio"
       ELSE "equity"

\* _route_query: the key of the agent that answers.
route_query(message) ==
    LET message_lower == lower(message)
    IN IF HasAny(message_lower, NewsWords) THEN "news"
       ELSE IF HasAny(message_lower, RiskWords) THEN "risk"
       ELSE IF HasAny(message_lower, MarketWords) THEN "market"
       ELSE IF HasAny(message_lower, PortfolioWords) THEN "portfolio"
       ELSE "equity"

----------------------------------------------------------------------------
(* _calculate_confidence adds Python floats.  A float between 0.5 and 1.0   *)
(* is a whole number of steps of 2^-53 above 0.5.  The float 0.1 is T + 1/4 *)
(* steps, where T = 900719925474099; the decimal 0.1 is T + 1/5 steps, and  *)
(* 5T + 1 steps above 0.5 is 1.0.  A value is written [t, q]: t times T     *)
(* plus q quarter steps above 0.5; q stays far below T, so values compare   *)
(* by t first and q second.                                                 *)

Half == [t |-> 0, q |-> 0]     \* 0.5
One == [t |-> 5, q |-> 4]      \* 1.0

\* The float nearest to the decimal 0.5 + k/10: k T plus k/5 steps, to the
\* nearest step.
Decimal(k) == [t |-> k, q |-> 4 * RoundDiv(k, 5)]

\* score += 0.1: the exact sum, rounded to the nearest step (4 quarters).
AddTenth(x) == [t |-> x.t + 1, q |-> 4 * RoundDiv(x.q + 1, 4)]

\* min(a, b)
MinFloat(a, b) ==
    IF a.t < b.t \/ (a.t = b.t /\ a.q <= b.q) THEN a ELSE b

\* dict.get(key) is truthy: the key is there and its value is not 0 or None.
Truthy(d, key) == key \in DOMAIN d /\ d[key] \notin {"zero", "None"}

\* _calculate_confidence
calculate_confidence(fundamentals, price_data) ==
    LET s0 == Half
        s1 == IF Truthy(fundamentals, "pe_ratio") THEN AddTenth(s0) ELSE s0
        s2 == IF Truthy(fundamentals, "revenue") THEN AddTenth(s1) ELSE s1
        s3 == IF Truthy(fundamentals, "eps") THEN AddTenth(s2) ELSE s2
        s4 == IF Truthy(price_data, "price") THEN AddTenth(s3) ELSE s3
        s5 == IF Truthy(fundamentals, "profit_margin") THEN AddTenth(s4) ELSE s4
    IN MinFloat(s5, One)

----------------------------------------------------------------------------
(* The operations of the agents.  Each is given as its effect: the methods  *)
(* it called (a data service, think), the entries it passed to             *)
(* add_to_memory, in order, and what it returned.                          *)

Effect(called, entries, ret) ==
    [called |-> called, entries |-> entries, ret |-> ret]

\* A structured result; narrative is the field that holds the text of think
\* (summary, analysis, commentary), "" when the operation has none.
Result(op, narrative) == [kind |-> "result", op |-> op, narrative |-> narrative]

\* The rest of an operation after `await self.think(...)`: an exception of
\* think would end the operation there, before its add_to_memory.
AfterThink(t, called, entries, op) ==
    IF IsException(t)
    THEN Effect(called, <<>>, t)
    ELSE Effect(called, entries, Result(op, t.text))

\* {"error": f"Unknown task type: {task_type}"}
UnknownTaskType(task_type) ==
    [kind |-> "error", error |-> <<"Unknown task type: ", task_type>>]

\* EquityResearchAgent.analyze: three fetches, think, the memory entry.
analyze(symbol, ready, env) ==
    AfterThink(think(ready, env.backend), {"market_service", "think"},
               <<[type |-> "analysis"]>>, "analyze")

\* EquityResearchAgent.compare_peers
compare_peers(symbol, ready, env) ==
    LET sym == upper(symbol)
        peers == ResolvePeers(sym, env.info)
        t == think(ready, env.backend)
    IN IF IsException(t)
       THEN Effect({"market_service", "think"}, <<>>, t)
       ELSE Effect({"market_service", "think"}, <<>>,
                   [kind |-> "result", op |-> "compare_peers", symbol |-> sym,
                    peers |-> Take(peers, PeerLimit), narrative |-> t.text])

\* EquityResearchAgent.calculate_valuation
calculate_valuation(symbol) ==
    Effect({"market_service"}, <<>>, Result("valuation", ""))

\* MarketTrendAgent.analyze_trend
analyze_trend(symbol, ready, env) ==
    AfterThink(think(ready, env.backend), {"market_service", "think"}, <<>>,
               "analyze_trend")

\* MarketTrendAgent.get_market_overview
get_market_overview(ready, env) ==
    AfterThink(think(ready, env.backend), {"market_service", "think"}, <<>>,
               "market_overview")

\* MarketTrendAgent.get_sector_performance
get_sector_performance(ready, env) ==
    AfterThink(think(ready, env.backend), {"market_service", "think"}, <<>>,
               "sector_performance")

\* NewsIntelligenceAgent.get_news: env.feed articles come back.
get_news(symbol, env) ==
    Effect({"news_service"}, <<[type |-> "news_fetch"]>>,
           [kind |-> "result", op |-> "get_news", narrative |-> "",
            count |-> env.feed])

\* NewsIntelligenceAgent.analyze_sentiment
analyze_sentiment(ready, env) ==
    AfterThink(think(ready, env.backend), {"think"}, <<>>, "analyze_sentiment")

\* NewsIntelligenceAgent.get_portfolio_news: get_news for each of the first
\* ten symbols, then the summary (think, when there is any news).
get_portfolio_news(symbols, ready, env) ==
    LET fetched == Take(symbols, NewsLimit)
        entries == [i \in 1..Len(fetched) |-> [type |-> "news_fetch"]]
        called == IF fetched = <<>> THEN {} ELSE {"news_service"}
    IN IF Len(fetched) * env.feed = 0
       THEN Effect(called, entries,
                   Result("portfolio_news",
                          "No recent news for your portfolio holdings."))
       ELSE LET t == think(ready, env.backend)
            IN IF IsException(t)
               THEN Effect(called \cup {"think"}, entries, t)
               ELSE Effect(called \cup {"think"}, entries,
                           Result("portfolio_news", t.text))

\* RiskProfilingAgent.assess_portfolio_risk; risk_score is in tenths.
assess_portfolio_risk(portfolio, ready, env) ==
    LET holdings == Get(portfolio, "holdings", <<>>)
        total_value == Get(portfolio, "total_value", 0)
    IN IF holdings = <<>> \/ total_value = 0
       THEN Effect({}, <<>>,
                   [kind |-> "result", op |-> "assess_portfolio",
                    narrative |-> "", risk_score |-> 0,
                    assessment |-> "No holdings to assess"])
       ELSE LET risk_metrics ==
                    calculate_risk_metrics(holdings, total_value, env.history)
                diversification == assess_diversification(holdings, total_value)
                concentration == assess_concentration(holdings, total_value)
                risk_score == calculate_risk_score(risk_metrics, diversification,
                                                   concentration)
                t == think(ready, env.backend)
            IN IF IsException(t)
               THEN Effect({"market_service", "think"}, <<>>, t)
               ELSE Effect({"market_service", "think"}, <<>>,
                           [kind |-> "result", op |-> "assess_portfolio",
                            narrative |-> t.text, risk_score |-> risk_score,
                            metrics |-> risk_metrics,
                            diversification |-> diversification,
                            concentration |-> concentration])

\* RiskProfilingAgent.profile_user_risk
profile_user_risk(answers) == Effect({}, <<>>, Result("profile_user", ""))

\* PortfolioMonitorAgent.analyze_health
analyze_health(portfolio, ready, env) ==
    IF Get(portfolio, "holdings", <<>>) = <<>>
    THEN Effect({}, <<>>,
                [kind |-> "result", op |-> "analyze_health", narrative |-> "",
                 status |-> "empty"])
    ELSE AfterThink(think(ready, env.backend), {"think"}, <<>>, "analyze_health")

\* PortfolioMonitorAgent.check_drift
check_drift(portfolio) == Effect({}, <<>>, Result("check_drift", ""))

\* PortfolioMonitorAgent.suggest_rebalancing
suggest_rebalancing(portfolio) == Effect({}, <<>>, Result("rebalance", ""))

----------------------------------------------------------------------------
(* execute(task) of the five agents *)

\* A variant whose else branch runs the default operation.
risk_execute_default(task, ready, env) ==
    LET task_type == Get(task, "type", "assess_portfolio")
    IN IF task_type = "profile_user"
       THEN profile_user_risk(Get(task, "answers", EmptyDict))
       ELSE assess_portfolio_risk(Get(task, "portfolio", EmptyDict), ready, env)

\* RiskProfilingAgent.execute
risk_execute(task, ready, env) ==
    LET task_type == Get(task, "type", "assess_portfolio")
    IN IF task_type = "assess_portfolio"
       THEN assess_portfolio_risk(Get(task, "portfolio", EmptyDict), ready, env)
       ELSE IF task_type = "profile_user"
            THEN profile_user_risk(Get(task, "answers", EmptyDict))
            ELSE Effect({}, <<>>, UnknownTaskType(task_type))

\* EquityResearchAgent.execute
equity_execute(task, ready, env) ==
    LET task_type == Get(task, "type", "analyze")
        symbol == Get(task, "symbol", "")
    IN IF task_type = "analyze" THEN analyze(symbol, ready, env)
       ELSE IF task_type = "compare_peers" THEN compare_peers(symbol, ready, env)
       ELSE IF task_type = "valuation" THEN calculate_valuation(symbol)
       ELSE Effect({}, <<>>, UnknownTaskType(task_type))

\* MarketTrendAgent.execute
market_execute(task, ready, env) ==
    LET task_type == Get(task, "type", "analyze_trend")
        symbol == Get(task, "symbol", "")
    IN IF task_type = "analyze_trend" THEN analyze_trend(symbol, ready, env)
       ELSE IF task_type = "market_overview" THEN get_market_overview(ready, env)
       ELSE IF task_type = "sector_performance"
            THEN get_sector_performance(ready, env)
       ELSE Effect({}, <<>>, UnknownTaskType(task_type))

\* NewsIntelligenceAgent.execute
news_execute(task, ready, env) ==
    LET task_type == Get(task, "type", "get_news")
        symbols == Get(task, "symbols", <<>>)
    IN IF task_type = "get_news"
       THEN get_news(Get(task, "symbol",
                         IF symbols # <<>> THEN symbols[1] ELSE ""), env)
       ELSE IF task_type = "analyze_sentiment" THEN analyze_sentiment(ready, env)
       ELSE IF task_type = "portfolio_news"
            THEN get_portfolio_news(symbols, ready, env)
       ELSE Effect({}, <<>>, UnknownTaskType(task_type))

\* PortfolioMonitorAgent.execute
portfolio_execute(task, ready, env) ==
    LET task_type == Get(task, "type", "analyze_health")
        portfolio == Get(task, "portfolio", EmptyDict)
    IN IF task_type = "analyze_health" THEN analyze_health(portfolio, ready, env)
       ELSE IF task_type = "check_drift" THEN check_drift(portfolio)
       ELSE IF task_type = "rebalance" THEN suggest_rebalancing(portfolio)
       ELSE Effect({}, <<>>, UnknownTaskType(task_type))

\* agent.execute(task) of the agent registered under a key.
Dispatch(agent, task, ready, env) ==
    CASE agent = "equity" -> equity_execute(task, ready, env)
      [] agent = "market" -> market_execute(task, ready, env)
      [] agent = "news" -> news_execute(task, ready, env)
      [] agent = "risk" -> risk_execute(task, ready, env)
      [] agent = "portfolio" -> portfolio_execute(task, ready, env)

\* The type tags a task may carry: every operation of every agent, and one
\* that no agent knows.
Tags == {"analyze", "compare_peers", "valuation",
         "analyze_trend", "market_overview", "sector_performance",
         "get_news", "analyze_sentiment", "portfolio_news",
         "assess_portfolio", "profile_user",
         "analyze_health", "check_drift", "rebalance", "bogus"}

\* A task about a portfolio of n holdings; without a "type" key.
TaskAbout(n) ==
    [symbol |-> "aapl",
     symbols |-> [i \in 1..n |-> "AAPL"],
     portfolio |-> [id |-> "p1", total_value |-> 50 * n,
                    holdings |-> [i \in 1..n |->
                        [symbol |-> "AAPL", current_value |-> 50]]]]

\* The portfolio of a task is empty or has one holding.
TaskSizes == {0, 1}

Tasks ==
    {TaskAbout(n) : n \in TaskSizes}
        \cup {("type" :> tag) @@ TaskAbout(n) : tag \in Tags, n \in TaskSizes}

\* What the services answer during one operation.
Envs == [backend : Backends, info : {"Technology"}, feed : {1},
         history : {[kind |-> "prices", volatility |-> 15]}]

\* add_to_memory for each entry in turn.
RECURSIVE AddAll(_, _)
AddAll(mem, entries) ==
    IF entries = <<>> THEN mem
    ELSE AddAll(MemoryAfterAdd(mem, Head(entries)), Tail(entries))

\* A caller awaits agent.execute(task); the model runs it in one step.
execute(agent, task, env) ==
    /\ execs < MaxExecs
    /\ LET eff == Dispatch(agent, task, llm, env)
           stamped == [i \in 1..Len(eff.entries) |->
                          Stamp(eff.entries[i], agent, clock + i - 1)]
       IN /\ memory' = [memory EXCEPT ![agent] = AddAll(@, stamped)]
          /\ added' = [added EXCEPT ![agent] = @ \o stamped]
          /\ clock' = clock + Len(stamped)
          /\ last' = [agent |-> agent, task |-> task, env |-> env,
                      called |-> eff.called, ret |-> eff.ret]
    /\ execs' = execs + 1
    /\ UNCHANGED <<orchVars, llm, funVars>>

\* The LLM is built at construction when the API key is set, for every agent
\* alike.
InitAgents ==
    /\ InitWith(StoreOf(SmallHoldings))
    /\ llm \in BOOLEAN
    /\ execs = 0
    /\ last = NoReturn
    /\ IdleFun

NextAgents == \E agent \in Agents, task \in Tasks, env \in Envs :
                  execute(agent, task, env)

SpecAgents == InitAgents /\ [][NextAgents]_vars

----------------------------------------------------------------------------
(* Claims about the agents' execute(task) *)

\* The fixed operation set of each agent.
OperationSet(agent) ==
    CASE agent = "equity" -> {"analyze", "compare_peers", "valuation"}
      [] agent = "market" ->
             {"analyze_trend", "market_overview", "sector_performance"}
      [] agent = "news" -> {"get_news", "analyze_sentiment", "portfolio_news"}
      [] agent = "risk" -> {"assess_portfolio", "profile_user"}
      [] agent = "portfolio" -> {"analyze_health", "check_drift", "rebalance"}

\* The step is one execute call.
Executes == execs' = execs + 1

\* The state is right after an execute call.
Executed == "agent" \in DOMAIN last

\* The task carries a type tag outside the agent's operation set.
UnknownTag(call) ==
    /\ "type" \in DOMAIN call.task
    /\ call.task.type \notin OperationSet(call.agent)

C11_Step ==
    (Executes /\ UnknownTag(last')) =>
        /\ last'.ret = [kind |-> "error",
                        error |-> <<"Unknown task type: ", last'.task.type>>]
        /\ last'.called = {}
        /\ memory' = memory
        /\ added' = added

\* C11: execute(task) of each of the five agents, given a task whose type tag
\* is outside that agent's operation set, returns the error result
\* "Unknown task type: <tag>" (it does not raise), calls no data service and
\* no think, and leaves every agent's memory as it was.
C11_UnknownTaskType == [][C11_Step]_vars

C11_Witness ==
    /\ Executed
    /\ last.agent = "news"
    /\ UnknownTag(last)
    /\ last.task.type = "analyze"
    /\ last.ret.kind = "error"
    /\ memory["news"] # <<>>

\* The operation called think while the LLM was missing or its generate call
\* failed.
ThinkFailed(call) ==
    /\ "think" \in call.called
    /\ ~llm \/ call.env.backend = "fails"

\* C12: think never propagates an exception: when the LLM is not initialized
\* or its generate call fails, think returns the text of the error, and the
\* operation that called it completes and returns its structured result with
\* that text in the narrative field.
C12_ThinkNeverRaises ==
    Executed =>
        /\ ~IsException(last.ret)
        /\ ThinkFailed(last) =>
               /\ last.ret.kind = "result"
               /\ last.ret.narrative =
                      IF ~llm THEN "LLM not initialized"
                      ELSE "Error generating response: e"

C12_Witness ==
    /\ Executed
    /\ llm
    /\ last.agent = "risk"
    /\ ThinkFailed(last)
    /\ last.ret.kind = "result"
    /\ last.ret.narrative = "Error generating response: e"

\* The primary operation of each agent (three for the equity agent), by the
\* name its result carries.
PrimaryOperations ==
    {"analyze", "compare_peers", "valuation", "analyze_trend", "get_news",
     "assess_portfolio", "analyze_health"}

\* The early returns for an empty portfolio are left aside: the operation
\* called a service or think.
C13_Step ==
    (Executes /\ last'.ret.kind = "result"
              /\ last'.ret.op \in PrimaryOperations
              /\ last'.called # {}) =>
        /\ Len(added'[last'.agent]) = Len(added[last'.agent]) + 1
        /\ \A other \in Agents \ {last'.agent} :
               added'[other] = added[other] /\ memory'[other] = memory[other]

\* C13: every completed primary operation of every agent passes exactly one
\* entry to the add_to_memory of that agent, and none to any other agent's.
C13_OneEntryPerOperation == [][C13_Step]_vars

----------------------------------------------------------------------------
(* Functions under study: the argument is drawn at the start, one step     *)
(* calls the function and keeps what it returned.                          *)

MaxPieces == 4    \* pieces of an analysis text

\* The state before the call, for each argument of a set.
InitFun(inputs) ==
    /\ InitWith(StoreOf(SmallHoldings))
    /\ IdleAgents
    /\ input \in inputs
    /\ output = NoReturn

\* The function returned value.
Return(value) ==
    /\ output = NoReturn
    /\ output' = [kind |-> "returned", value |-> value]
    /\ UNCHANGED <<orchVars, clock, memory, added, agentVars, input>>

\* Pieces of an LLM answer: the words the extraction looks for, in several
\* spellings, with and without the blank between them.
AnalysisPieces ==
    {<<"s", "t", "r", "o", "n", "g", " ">>,
     <<"S", "T", "R", "O", "N", "G">>,
     <<" ">>,
     <<"b", "u", "y">>,
     <<"S", "e", "l", "l">>,
     <<"h", "o", "l", "d">>}

AnalysisTexts == {[analysis |-> t] : t \in Texts(AnalysisPieces, MaxPieces)}

\* recommendation = self._extract_recommendation(analysis_text)
ExtractRecommendation == Return(extract_recommendation(input.analysis))

InitRecommendation == InitFun(AnalysisTexts)

NextRecommendation == ExtractRecommendation

SpecRecommendation == InitRecommendation /\ [][NextRecommendation]_vars

----------------------------------------------------------------------------
(* Claims about _extract_recommendation *)

Returned == output # NoReturn

\* The fragments in the order the claim gives them, with their results.
Priority ==
    <<[fragment |-> strong_buy, recommendation |-> "strong_buy"],
      [fragment |-> strong_sell, recommendation |-> "strong_sell"],
      [fragment |-> buy, recommendation |-> "buy"],
      [fragment |-> sell, recommendation |-> "sell"]>>

\* The result of the first fragment of Priority found in the text, hold when
\* none is found.
FirstMatch(text) ==
    LET found == {i \in DOMAIN Priority : Has(text, Priority[i].fragment)}
    IN IF found = {} THEN "hold"
       ELSE Priority[CHOOSE i \in found : \A j \in found : i <= j].recommendation

\* C14 as stated: every text that contains "strong sell", in any case, gives
\* strong_sell.
C14_StrongSellAlways ==
    (Returned /\ Has(lower(input.analysis), strong_sell)) =>
        output.value = "strong_sell"

\* C14, amended: every text that contains "strong sell" (in any case) and
\* does not contain "strong buy" gives strong_sell, also when it contains
\* "buy"; in general the first fragment found, in the order strong buy,
\* strong sell, buy, sell, decides, and a text with none of them gives hold.
C14_FirstFragmentDecides ==
    Returned =>
        LET text == lower(input.analysis)
        IN /\ output.value = FirstMatch(text)
           /\ (Has(text, strong_sell) /\ ~Has(text, strong_buy)) =>
                  output.value = "strong_sell"
           /\ (\A i \in DOMAIN Priority : ~Has(text, Priority[i].fragment)) =>
                  output.value = "hold"

C14_Witness ==
    /\ Returned
    /\ input.analysis = <<"b", "u", "y">> \o <<" ", "s", "t", "r", "o", "n", "g", " ", "S", "e", "l", "l">>
    /\ output.value = "strong_sell"

----------------------------------------------------------------------------
(* assess_portfolio_risk and _assess_diversification under study *)

MaxHoldings == 4    \* holdings of an assessed portfolio

\* current_value of a holding, in units that make total_value 100 when the
\* total is stated.
HoldingValues == {0, 7, 10, 25, 30, 49}

\* total_value as the caller states it: missing from the books (0), or 100.
TotalValues == {0, 100}

\* The holdings lists of at most n holdings.
RECURSIVE HoldingsUpTo(_)
HoldingsUpTo(n) ==
    IF n = 0 THEN {<<>>}
    ELSE LET shorter == HoldingsUpTo(n - 1)
         IN shorter \cup
            {Append(h, [symbol |-> "AAPL", current_value |-> v]) :
                 h \in shorter, v \in HoldingValues}

\* The portfolios passed to the risk agent, with what the services answer;
\* one of them is the empty dict.
RiskInputs ==
    {[portfolio |-> [id |-> "p1", holdings |-> h, total_value |-> t],
      env |-> [backend |-> "text", history |-> y]] :
         h \in HoldingsUpTo(MaxHoldings), t \in TotalValues, y \in Histories}
    \cup {[portfolio |-> EmptyDict,
           env |-> [backend |-> "text", history |-> y]] : y \in Histories}

\* await self.assess_portfolio_risk(portfolio)
AssessPortfolioRisk ==
    Return(assess_portfolio_risk(input.portfolio, llm, input.env).ret)

\* self._assess_diversification(holdings, total_value)
AssessDiversification ==
    Return(assess_diversification(Get(input.portfolio, "holdings", <<>>),
                                  Get(input.portfolio, "total_value", 0)))

InitRisk == InitFun(RiskInputs)

NextRisk == AssessPortfolioRisk \/ AssessDiversification

SpecRisk == InitRisk /\ [][NextRisk]_vars

----------------------------------------------------------------------------
(* Claims about the risk agent's numbers *)

\* The value returned is an assessment of assess_portfolio_risk.
Assessed == Returned /\ "risk_score" \in DOMAIN output.value

\* The value returned is a classification of _assess_diversification.
Classified == Returned /\ "diversification_level" \in DOMAIN output.value

\* C15: the risk_score that assess_portfolio_risk returns lies in [1, 10]
\* (here in tenths: [10, 100]) for every portfolio, also one with no
\* holdings or with a total value of 0.
C15_RiskScoreInRange ==
    Assessed => (output.value.risk_score >= 10 /\ output.value.risk_score <= 100)

\* The squares of the percentage weights, summed: the weights are the
\* holdings' values when total_value is 100, and 0 when it is 0.
SquaredWeights ==
    LET holdings == Get(input.portfolio, "holdings", <<>>)
    IN IF Get(input.portfolio, "total_value", 0) = 100
       THEN SumSeq([i \in 1..Len(holdings) |->
                       holdings[i].current_value * holdings[i].current_value])
       ELSE 0

FourQuarters ==
    /\ Get(input.portfolio, "total_value", 0) = 100
    /\ ValuesOf(Get(input.portfolio, "holdings", <<>>)) = <<25, 25, 25, 25>>

\* C17: HHI < 1000 is well diversified with score 9, 1000 <= HHI < 2500 is
\* moderately diversified with score 6, HHI >= 2500 is concentrated with
\* score 3; four holdings of 25% each have HHI exactly 2500 and are
\* concentrated, and HHI 2499 is moderately diversified.
C17_DiversificationByHhi ==
    Classified =>
        LET hhi == SquaredWeights
            d == output.value
        IN /\ hhi < 1000 =>
                  /\ d.diversification_level = "well_diversified"
                  /\ d.diversification_score = 9
           /\ (hhi >= 1000 /\ hhi < 2500) =>
                  /\ d.diversification_level = "moderately_diversified"
                  /\ d.diversification_score = 6
           /\ hhi >= 2500 =>
                  /\ d.diversification_level = "concentrated"
                  /\ d.diversification_score = 3
           /\ FourQuarters =>
                  /\ d.hhi.num = 2500 * d.hhi.den
                  /\ d.diversification_level = "concentrated"
           /\ hhi = 2499 => d.diversification_level = "moderately_diversified"

C17_Witness ==
    /\ Classified
    /\ FourQuarters
    /\ SquaredWeights = 2500
    /\ output.value.diversification_level = "concentrated"
    /\ output.value.diversification_score = 3

----------------------------------------------------------------------------
(* _calculate_confidence under study *)

\* What a provider's dict holds under a key, when it holds the key.
FieldValues == {"nonzero", "zero", "None"}

\* The dicts over some of the given keys.
Dicts(keys) == UNION {[present -> FieldValues] : present \in SUBSET keys}

ConfidenceInputs ==
    {[fundamentals |-> f, price_data |-> p] :
         f \in Dicts({"pe_ratio", "revenue", "eps", "profit_margin"}),
         p \in Dicts({"price"})}

\* confidence = self._calculate_confidence(fundamentals, price_data)
CalculateConfidence ==
    Return(calculate_confidence(input.fundamentals, input.price_data))

InitConfidence == InitFun(ConfidenceInputs)

NextConfidence == CalculateConfidence

SpecConfidence == InitConfidence /\ [][NextConfidence]_vars

----------------------------------------------------------------------------
(* Claims about _calculate_confidence *)

\* The number of the five fields that are present and not zero.
FieldsPresent ==
    Cardinality({k \in {"pe_ratio", "revenue", "eps", "profit_margin"} :
                     Truthy(input.fundamentals, k)})
        + (IF Truthy(input.price_data, "price") THEN 1 ELSE 0)

\* a <= b for two floats between 0.5 and 1.0
FloatLeq(a, b) == a.t < b.t \/ (a.t = b.t /\ a.q <= b.q)

\* C16: the confidence score is 0.5 plus 0.1 for each of the five fields
\* that is present and non-zero, capped at 1.0 (the float that the decimal
\* 0.5, 0.6, ..., 1.0 denotes), and lies in [0.5, 1.0].
C16_ConfidenceValue ==
    (Returned /\ "fundamentals" \in DOMAIN input) =>
        /\ output.value = MinFloat(Decimal(FieldsPresent), One)
        /\ FloatLeq(Half, output.value)
        /\ FloatLeq(output.value, One)

----------------------------------------------------------------------------
(* compare_peers under study *)

\* The symbols queried: the keys of the static table, symbols of the sector
\* lists, the last-resort default, one that is nowhere, some in lower case.
PeerSymbols == {"AAPL", "aapl", "MSFT", "GOOGL", "AMZN", "TSLA", "tsla",
                "NVDA", "JPM", "IBM", "SPY", "spy"}

PeerInputs ==
    {[symbol |-> sym, env |-> [backend |-> b, info |-> i]] :
         sym \in PeerSymbols, b \in Backends, i \in Infos}

\* await self.compare_peers(symbol)
ComparePeers == Return(compare_peers(input.symbol, llm, input.env).ret)

InitPeers == InitFun(PeerInputs)

NextPeers == ComparePeers

SpecPeers == InitPeers /\ [][NextPeers]_vars

----------------------------------------------------------------------------
(* Claims about compare_peers *)

\* The value returned is a PeerComparison.
Compared == Returned /\ "peers" \in DOMAIN output.value

\* C18: the peer list that compare_peers returns has at most 4 entries and
\* never contains the queried symbol, wherever the peers came from.
C18_PeersExcludeSymbol ==
    Compared =>
        /\ Len(output.value.peers) <= 4
        /\ \A i \in DOMAIN output.value.peers :
               output.value.peers[i] # upper(input.symbol)

\* The keys of the static table.
StaticSymbols == {"AAPL", "MSFT", "GOOGL", "AMZN", "TSLA"}

\* What the provider answered for the queried symbol.
Provided == get_peers(input.symbol, input.env.info)

\* C19: the peers are the provider's when it returns a non-empty list,
\* otherwise the static table entry of the symbol, otherwise ["SPY"]; for
\* AAPL with no peers from the provider they are exactly MSFT, GOOGL, META,
\* AMZN.
C19_PeerResolutionOrder ==
    Compared =>
        LET peers == output.value.peers
            symbol == upper(input.symbol)
        IN /\ Provided # <<>> => peers = Provided
           /\ (Provided = <<>> /\ symbol \in StaticSymbols) =>
                  peers = get_default_peers(symbol)
           /\ (Provided = <<>> /\ symbol \notin StaticSymbols) =>
                  peers = <<"SPY">>
           /\ (Provided = <<>> /\ symbol = "AAPL") =>
                  peers = <<"MSFT", "GOOGL", "META", "AMZN">>

C19_Witness ==
    /\ Compared
    /\ input.symbol = "aapl"
    /\ input.env.info = ""
    /\ output.value.symbol = "AAPL"
    /\ output.value.peers = <<"MSFT", "GOOGL", "META", "AMZN">>

----------------------------------------------------------------------------
(* chat under study *)

MaxWords == 3    \* pieces of a chat message

\* Pieces of a message: words of each keyword set in several spellings, a
\* word that holds a keyword inside it, a word of no set, a blank.
MessagePieces ==
    {<<"N", "e", "w", "s">>,
     <<"p", "a", "r", "t", "i", "c", "l", "e">>,
     <<"R", "I", "S", "K">>,
     <<"d", "r", "a", "w", "d", "o", "w", "n">>,
     <<"c", "h", "a", "r", "t">>,
     <<"P", "r", "i", "c", "e">>,
     <<"p", "o", "r", "t", "f", "o", "l", "i", "o">>,
     <<"r", "e", "b", "a", "l", "a", "n", "c", "e">>,
     <<"h", "e", "l", "l", "o">>,
     <<" ">>}

ChatInputs ==
    {[message |-> m, env |-> [backend |-> b]] :
         m \in Texts(MessagePieces, MaxWords), b \in Backends}

\* AgentOrchestrator.chat without a portfolio and without a RAG engine: the
\* routed agent's think answers.  The value kept is the key of the agent
\* whose think was awaited, with the text chat returns.
chat ==
    LET agent == route_query(input.message)
        response == think(llm, input.env.backend)
    IN Return(IF IsException(response) THEN response
              ELSE [agent |-> agent, response |-> response.text])

InitChat == InitFun(ChatInputs)

NextChat == chat

SpecChat == InitChat /\ [][NextChat]_vars

----------------------------------------------------------------------------
(* Claims about chat *)

\* The keyword sets in the order the claim gives them, with their agents.
RouteOrder ==
    <<[agent |-> "news", words |-> NewsWords],
      [agent |-> "risk", words |-> RiskWords],
      [agent |-> "market", words |-> MarketWords],
      [agent |-> "portfolio", words |-> PortfolioWords]>>

\* The positions of RouteOrder whose set has a keyword in the message.
Matching ==
    {i \in DOMAIN RouteOrder :
         \E word \in RouteOrder[i].words : Has(lower(input.message), word)}

\* C20: chat routes every message to exactly one agent: the agent of the
\* first keyword set, in the order news, risk, market, portfolio, that has
\* a keyword in the message, and the equity agent when no set has one.
C20_RoutesByPriority ==
    (Returned /\ "message" \in DOMAIN input) =>
        /\ output.value.agent \in Agents
        /\ Matching = {} => output.value.agent = "equity"
        /\ \A i \in Matching :
               (\A j \in Matching : i <= j) =>
                   output.value.agent = RouteOrder[i].agent

C20_Witness ==
    /\ Returned
    /\ "message" \in DOMAIN input
    /\ input.message = <<"p", "o", "r", "t", "f", "o", "l", "i", "o">> \o <<"R", "I", "S", "K">> \o <<"N", "e", "w", "s">>
    /\ Matching = {1, 2, 4}
    /\ output.value.agent = "news"

----------------------------------------------------------------------------
(* Reports with rich LLM output: requests made one after the other on a    *)
(* small portfolio, with short and long answers and the error text that     *)
(* think returns when the LLM is missing or its call fails.                *)

MaxLines == 7     \* lines of the longest LLM answer

\* think's "LLM not initialized" / "Error generating response: ...": one
\* line that starts with a letter.
ErrorResponse == <<Line("alpha", 0)>>

\* An answer of n numbered items.
Numbered(n) == [k \in 1..n |-> Line("digit", k)]

ReportResponses ==
    {ErrorResponse, Numbered(RecLimit - 1), Numbered(MaxLines)}

ReportIds == {"p2", "p0"}

NextReport ==
    \/ \E pid \in ReportIds, uid \in SeqUsers : analyze_portfolio(1, pid, uid)
    \/ \E pid \in ReportIds, uid \in SeqUsers : get_recommendations(1, pid, uid)
    \/ Steps(ReportResponses)

SpecReport == InitConc /\ [][NextReport]_vars

\* The recommendation lists the calls have returned and the cached ones.
RecommendationLists ==
    {calls[i].ret.recommendations :
         i \in {j \in DOMAIN calls :
                    calls[j].ret.kind \in {"report", "recommendations"}}}
    \cup {Latest(portfolio_threads, pid).recommendations :
              pid \in {q \in CallIds : Latest(portfolio_threads, q) # NoReturn}}

\* C21: the recommendations list of every report of analyze_portfolio and of
\* every get_recommendations answer has at most 5 entries, whatever the LLM
\* returned, the error text of a failed generation included.
C21_AtMostFiveRecommendations ==
    \A list \in RecommendationLists : Len(list) <= 5

\* A report cut to five of the seven items of the answer, and an answer to
\* get_recommendations made from the error text.
C21_Witness ==
    /\ Len(calls) = 2
    /\ calls[1].op = "recommendations" /\ calls[1].pc = "done"
    /\ calls[1].ret.kind = "recommendations"
    /\ calls[1].ret.recommendations = <<>>
    /\ calls[2].op = "analyze" /\ calls[2].pc = "done"
    /\ calls[2].ret.kind = "report"
    /\ calls[2].ret.recommendations = Numbered(5)
    /\ Numbered(MaxLines) \in ReportResponses

----------------------------------------------------------------------------
(* Floating point.  Prices, ratios and earnings of the model are integers, *)
(* which a double holds exactly; a quotient a / b and a product p * (a / b) *)
(* are rounded to 53 significant bits (IEEE-754, ties to even).  The       *)
(* operators below carry out that rounding by long division on small       *)
(* integers and give the side on which the computed product lies of the    *)
(* exact one.                                                              *)

FairPe == 18        \* fair_pe = 18
IndustryPe == 20    \* industry_pe = 20
VerdictLimit == 15  \* upside > 15, upside < -15

None == [kind |-> "None"]

Num(n) == [kind |-> "num", n |-> n]

\* not v, for a number or None
Falsy(v) == v = None \/ v = Num(0)

Abs(n) == IF n < 0 THEN -n ELSE n

\* a doubled until a / b >= 1, then b doubled until a / b < 2
RECURSIVE ScaleUp(_, _)
ScaleUp(a, b) == IF a < b THEN ScaleUp(2 * a, b) ELSE a

RECURSIVE ScaleDown(_, _)
ScaleDown(a, b) == IF a >= 2 * b THEN ScaleDown(a, 2 * b) ELSE b

\* k more hexadecimal digits (four bits each) of the quotient by long
\* division: r is the remainder and low the last twelve bits found so far.
RECURSIVE Divide(_, _, _, _)
Divide(k, r, b, low) ==
    IF k = 0
    THEN [r |-> r, low |-> low]
    ELSE Divide(k - 1, (16 * r) % b, b, (16 * low + (16 * r) \div b) % 4096)

\* The double a0 / b0 for 0 < a0 and 0 < b0: a / b is a0 / b0 scaled into
\* [1, 2), low the last twelve bits of its 53-bit significand after rounding
\* to nearest (ties to even), and err / b the rounding error in units of
\* the last place.
FloatDiv(a0, b0) ==
    LET a == ScaleUp(a0, b0)
        b == ScaleDown(a, b0)
        d == Divide(13, a - b, b, 1)
        up == 2 * d.r > b \/ (2 * d.r = b /\ d.low % 2 = 1)
    IN [a |-> a, b |-> b,
        low |-> IF up THEN (d.low + 1) % 4096 ELSE d.low,
        err |-> IF up THEN b - d.r ELSE -d.r]

\* The bits the product p * q has beyond 53.
RECURSIVE Extra(_, _, _)
Extra(p, q, j) ==
    IF p * q.a >= 2^(j + 1) * q.b THEN Extra(p, q, j + 1) ELSE j

\* The double p * (a0 / b0) less the exact p * a0 / b0, up to a positive
\* factor: negative when the computed product is below the exact one, zero
\* when it is exact.
Drift(p, a0, b0) ==
    LET q == FloatDiv(a0, b0)
        j == Extra(p, q, 0)
        product == (p * q.low) % 2^(j + 1)
        dropped == product % 2^j
        half == 2^j \div 2
        adj == IF j = 0 THEN 0
               ELSE IF dropped > half \/ (dropped = half /\ product >= 2^j)
                    THEN 2^j - dropped
                    ELSE -dropped
    IN adj * q.b + p * q.err

\* round(p * (a / b), 2) in hundredths, for 0 < p, 0 < a, 0 < b: round gives
\* the hundredth nearest to the double, so a double just below or above the
\* middle of two hundredths goes down or up, and one exactly in the middle
\* goes to the even one.
RoundProduct(p, a, b) ==
    LET n == 100 * p * a
        q == n \div b
        r == n % b
    IN IF 2 * r # b
       THEN (IF 2 * r > b THEN q + 1 ELSE q)
       ELSE LET drift == Drift(p, a, b)
            IN IF drift < 0 THEN q
               ELSE IF drift > 0 THEN q + 1
               ELSE IF q % 2 = 1 THEN q + 1 ELSE q

\* _estimate_target_price: None, or the target in hundredths (a negative
\* P/E gives the negated target of its absolute value).
estimate_target_price(price_data, fundamentals) ==
    LET current_price == Get(price_data, "price", Num(0))
        pe == Get(fundamentals, "pe_ratio", Num(0))
    IN IF Falsy(current_price) \/ Falsy(pe)
       THEN None
       ELSE LET target == RoundProduct(current_price.n, FairPe, Abs(pe.n))
            IN [kind |-> "float",
                hundredths |-> IF pe.n < 0 THEN -target ELSE target]

\* The prices and the P/E ratios of the estimates under study.
Prices == {None, Num(0), Num(1), Num(7), Num(13), Num(50), Num(100)}

Ratios == {None, Num(0), Num(7), Num(18), Num(25), Num(80), Num(-25)}

\* The dicts with the key, or without it.
Entry(key, values) == {[k \in {} |-> None]} \cup {(key :> v) : v \in values}

TargetInputs ==
    {[price_data |-> p, fundamentals |-> f] :
         p \in Entry("price", Prices), f \in Entry("pe_ratio", Ratios)}

\* target_price = self._estimate_target_price(price_data, fundamentals)
EstimateTargetPrice ==
    Return(estimate_target_price(input.price_data, input.fundamentals))

InitTarget == InitFun(TargetInputs)

NextTarget == EstimateTargetPrice

SpecTarget == InitTarget /\ [][NextTarget]_vars

----------------------------------------------------------------------------
(* Claims about _estimate_target_price *)

\* The price or the P/E of the input, Num(0) when the key is absent.
PriceOf == Get(input.price_data, "price", Num(0))

PeOf == Get(input.fundamentals, "pe_ratio", Num(0))

\* h with the sign of n
Signed(n, h) == IF n < 0 THEN -h ELSE h

\* The estimate was made from a price and a P/E.
Estimated == Returned /\ "fundamentals" \in DOMAIN input /\ "price_data" \in DOMAIN input

\* C22: the target price is absent when the current price or the P/E is
\* missing or zero, and otherwise equals current_price * 18 / pe rounded to
\* two decimals (7200 hundredths for price 100 and P/E 25).
C22_RoundedTarget ==
    Estimated =>
        IF PriceOf \in {None, Num(0)} \/ PeOf \in {None, Num(0)}
        THEN output.value = None
        ELSE /\ output.value.kind = "float"
             /\ output.value.hundredths =
                    Signed(PeOf.n, RoundDiv(100 * PriceOf.n * 18, Abs(PeOf.n)))

----------------------------------------------------------------------------
(* EquityResearchAgent.calculate_valuation: the fair values, the upside and *)
(* the verdict.                                                            *)

\* An upside in percent: the double 100 * (n / d), which lies above
\* (drift > 0), below (drift < 0) or on (drift = 0) the exact 100 * n / d.
Percent(n, d) ==
    [n |-> n, d |-> d,
     drift |-> IF n = 0 THEN 0
               ELSE IF n > 0 THEN Drift(100, n, d)
               ELSE -Drift(100, -n, d)]

ZeroPercent == [n |-> 0, d |-> 1, drift |-> 0]

\* upside > limit and upside < limit, for an integer limit
Above(upside, limit) ==
    \/ 100 * upside.n > limit * upside.d
    \/ 100 * upside.n = limit * upside.d /\ upside.drift > 0

Below(upside, limit) ==
    \/ 100 * upside.n < limit * upside.d
    \/ 100 * upside.n = limit * upside.d /\ upside.drift < 0

\* x ** 0.5 for a square x
Sqrt(x) == CHOOSE r \in 0..x : r * r = x

\* 22.5 * eps * book_value with book_value = current_price / pb
Radicand(eps, current_price, pb) == (45 * eps * current_price) \div (2 * pb)

\* The fair values of the valuation methods that apply, in the order of
\* the dict.
FairValues(current_price, eps, pe, pb) ==
    LET pe_based == IF ~Falsy(eps) /\ ~Falsy(pe)
                    THEN <<eps.n * IndustryPe>>
                    ELSE <<>>
        graham == IF ~Falsy(eps) /\ ~Falsy(pb)
                  THEN <<IF eps.n > 0 /\ current_price.n > 0 /\ pb.n > 0
                         THEN Sqrt(Radicand(eps.n, current_price.n, pb.n))
                         ELSE 0>>
                  ELSE <<>>
    IN pe_based \o graham

\* A variant whose average is 0 when no method gives a positive value.
UpsideFromZero(current_price, fair_values) ==
    LET positive == SelectSeq(fair_values, LAMBDA v : v > 0)
        total == SumSeq(positive)
        count == Len(positive)
    IN IF Falsy(current_price) THEN ZeroPercent
       ELSE IF count = 0 THEN Percent(-current_price.n, current_price.n)
       ELSE Percent(total - count * current_price.n, count * current_price.n)

\* upside: the average of the positive fair values, or the current price
\* when there is none, against the current price; 0 when the price is 0.
Upside(current_price, fair_values) ==
    LET positive == SelectSeq(fair_values, LAMBDA v : v > 0)
        total == SumSeq(positive)
        count == Len(positive)
    IN IF Falsy(current_price) \/ count = 0
       THEN ZeroPercent
       ELSE Percent(total - count * current_price.n, count * current_price.n)

Verdict(upside) ==
    IF Above(upside, VerdictLimit) THEN "Undervalued"
    ELSE IF Below(upside, -VerdictLimit) THEN "Overvalued"
    ELSE "Fairly Valued"

\* calculate_valuation, from what the two services returned.
Valuation(price_data, fundamentals) ==
    LET current_price == Get(price_data, "price", Num(0))
        eps == Get(fundamentals, "eps", Num(0))
        pe == Get(fundamentals, "pe_ratio", Num(0))
        pb == Get(fundamentals, "pb_ratio", Num(0))
        fair_values == FairValues(current_price, eps, pe, pb)
        upside == Upside(current_price, fair_values)
    IN [valuation_methods |-> fair_values,
        upside_potential |-> upside,
        verdict |-> Verdict(upside)]

\* The prices, earnings per share and ratios of the valuations under study.
ValuationPrices == {Num(0), Num(100), Num(400)}

Earnings ==
    {None, Num(0), Num(-5), Num(10), Num(16), Num(17), Num(20), Num(23), Num(24)}

PeRatios == {None, Num(0), Num(20)}

PbRatios == {None, Num(0), Num(25)}

\* The Graham number of the input, when it has one, is a whole number.
WholeGraham(price_data, fundamentals) ==
    LET current_price == Get(price_data, "price", Num(0))
        eps == Get(fundamentals, "eps", Num(0))
        pb == Get(fundamentals, "pb_ratio", Num(0))
    IN (~Falsy(eps) /\ ~Falsy(pb) /\ eps.n > 0 /\ current_price.n > 0 /\ pb.n > 0) =>
           /\ (45 * eps.n * current_price.n) % (2 * pb.n) = 0
           /\ \E r \in 0..Radicand(eps.n, current_price.n, pb.n) :
                  r * r = Radicand(eps.n, current_price.n, pb.n)

ValuationInputs ==
    {i \in {[price_data |-> p, fundamentals |-> e @@ r @@ b] :
                p \in Entry("price", ValuationPrices),
                e \in Entry("eps", Earnings),
                r \in Entry("pe_ratio", PeRatios),
                b \in Entry("pb_ratio", PbRatios)} :
         WholeGraham(i.price_data, i.fundamentals)}

\* valuation = await self.calculate_valuation(symbol)
CalculateValuation == Return(Valuation(input.price_data, input.fundamentals))

InitValuation == InitFun(ValuationInputs)

NextValuation == CalculateValuation

SpecValuation == InitValuation /\ [][NextValuation]_vars

----------------------------------------------------------------------------
(* Claims about calculate_valuation *)

\* The valuation was made.
Valued == Returned /\ "price_data" \in DOMAIN input

\* The price is missing or zero, or no method gave a positive fair value.
NothingToCompare ==
    \/ Falsy(Get(input.price_data, "price", Num(0)))
    \/ \A k \in DOMAIN output.value.valuation_methods :
           output.value.valuation_methods[k] <= 0

\* C23: calculate_valuation classifies the verdict from the upside it
\* computed: Undervalued when the upside is above 15, Overvalued when it is
\* below -15 and Fairly Valued otherwise; when no valuation method yields a
\* positive fair value, or the current price is zero, the upside is 0 and
\* the verdict is Fairly Valued.
C23_VerdictFromUpside ==
    Valued =>
        LET upside == output.value.upside_potential
        IN /\ Above(upside, 15) => output.value.verdict = "Undervalued"
           /\ Below(upside, -15) => output.value.verdict = "Overvalued"
           /\ (~Above(upside, 15) /\ ~Below(upside, -15)) =>
                  output.value.verdict = "Fairly Valued"
           /\ NothingToCompare =>
                  /\ upside = ZeroPercent
                  /\ output.value.verdict = "Fairly Valued"

\* No method gives a positive fair value for negative earnings: the P/E
\* value is -100 and the Graham number 0, the upside is 0.
C23_Witness ==
    /\ Valued
    /\ input.price_data = [price |-> Num(400)]
    /\ input.fundamentals =
           [eps |-> Num(-5), pe_ratio |-> Num(20), pb_ratio |-> Num(25)]
    /\ output.value.valuation_methods = <<-100, 0>>
    /\ output.value.upside_potential = ZeroPercent
    /\ output.value.verdict = "Fairly Valued"

----------------------------------------------------------------------------
(* The HTTP routes: routes/portfolio.py on the portfolio store, and        *)
(* routes/analysis.py in front of the orchestrator.  A request is a route, *)
(* its arguments and the authenticated user; `input` is the last request   *)
(* with its number and `output` what the portfolio route answered (the     *)
(* answer of an orchestrator route is the return value of its call).       *)
(* Quantities and prices are whole numbers; average_cost is kept as the    *)
(* exact quotient.                                                         *)

MaxRequests == 3  \* requests per behaviour (SpecRoutes, SpecTransactions)

RECURSIVE Gcd(_, _)
Gcd(a, b) == IF b = 0 THEN a ELSE Gcd(b, a % b)

Fraction(n, d) == [num |-> n \div Gcd(n, d), den |-> d \div Gcd(n, d)]

HTTPException(status_code, detail) ==
    [kind |-> "HTTPException", status_code |-> status_code, detail |-> detail]

IsHTTPException(r) == "status_code" \in DOMAIN r

\* new_holding of add_transaction; also a holding of create_portfolio bought
\* at its current price.
NewHolding(symbol, quantity, price) ==
    [symbol |-> symbol, name |-> symbol, asset_type |-> "stock",
     quantity |-> quantity, average_cost |-> Fraction(price, 1),
     current_price |-> price, current_value |-> quantity * price,
     gain_loss |-> 0, gain_loss_percent |-> 0]

\* portfolio_data of create_portfolio (the fields the routes below read or
\* write).
PortfolioData(id, user_id, holdings, now) ==
    [id |-> id, user_id |-> user_id, name |-> id, updated_at |-> now,
     holdings |-> holdings,
     total_value |-> SumSeq([k \in DOMAIN holdings |-> holdings[k].current_value]),
     total_invested |->
         SumSeq([k \in DOMAIN holdings |->
                     holdings[k].quantity * holdings[k].average_cost.num])]

\* The store after create_portfolio by u1 (p1) and by u2 (p2).
RouteStore ==
    ("p1" :> PortfolioData("p1", "u1", <<NewHolding("AAPL", 2, 10)>>, 0))
    @@ ("p2" :> PortfolioData("p2", "u2", <<NewHolding("IBM", 1, 10)>>, 0))

\* The number of requests made so far.
Requests == IF "n" \in DOMAIN input THEN input.n ELSE 0

\* not portfolio or portfolio["user_id"] != current_user.id
NotOwned(pid, user) ==
    pid \notin DOMAIN portfolios_db \/ portfolios_db[pid].user_id # user

\* The two checks of get_portfolio and delete_portfolio: NoReturn when the
\* user may go on.
Access(pid, user) ==
    IF pid \notin DOMAIN portfolios_db
    THEN HTTPException(404, "Portfolio not found")
    ELSE IF portfolios_db[pid].user_id # user
         THEN HTTPException(403, "Not authorized")
         ELSE NoReturn

\* holding_idx: the first holding of the symbol, 0 for None.
holding_idx(holdings, symbol) ==
    IF \E k \in DOMAIN holdings : holdings[k].symbol = symbol
    THEN CHOOSE k \in DOMAIN holdings :
             /\ holdings[k].symbol = symbol
             /\ \A j \in 1..(k - 1) : holdings[j].symbol # symbol
    ELSE 0

\* holdings.pop(idx)
Pop(holdings, idx) ==
    [k \in 1..(Len(holdings) - 1) |->
        IF k < idx THEN holdings[k] ELSE holdings[k + 1]]

\* The BUY branch (lines 226-250).
Buy(portfolio, symbol, quantity, price) ==
    LET idx == holding_idx(portfolio.holdings, symbol)
        old == portfolio.holdings[idx]
        new_qty == old.quantity + quantity
        new_avg == Fraction(old.quantity * old.average_cost.num
                                + quantity * price * old.average_cost.den,
                            new_qty * old.average_cost.den)
        holdings ==
            IF idx # 0
            THEN [portfolio.holdings EXCEPT ![idx] =
                     [old EXCEPT !.quantity = new_qty, !.average_cost = new_avg]]
            ELSE Append(portfolio.holdings, NewHolding(symbol, quantity, price))
    IN [portfolio EXCEPT !.holdings = holdings,
                         !.total_invested = @ + quantity * price]

\* A variant of the SELL branch that keeps a holding sold down to 0.
SellKeep(portfolio, symbol, quantity) ==
    LET idx == holding_idx(portfolio.holdings, symbol)
    IN IF idx = 0
       THEN HTTPException(400, "No holding found")
       ELSE IF portfolio.holdings[idx].quantity < quantity
            THEN HTTPException(400, "Insufficient quantity to sell")
            ELSE [portfolio EXCEPT !.holdings[idx].quantity = @ - quantity]

\* The SELL branch (lines 252-269): the portfolio, or the exception raised.
Sell(portfolio, symbol, quantity) ==
    LET idx == holding_idx(portfolio.holdings, symbol)
        left == portfolio.holdings[idx].quantity - quantity
    IN IF idx = 0
       THEN HTTPException(400, "No holding found")
       ELSE IF portfolio.holdings[idx].quantity < quantity
            THEN HTTPException(400, "Insufficient quantity to sell")
            ELSE IF left = 0
                 THEN [portfolio EXCEPT !.holdings = Pop(@, idx)]
                 ELSE [portfolio EXCEPT !.holdings[idx].quantity = left]

TransactionTypes == {"buy", "sell", "dividend"}

\* What lines 219-271 make of the portfolio: the portfolio after the
\* transaction, stamped, or the exception raised.
Transacted(portfolio, symbol, transaction_type, quantity, price, now) ==
    LET changed ==
            CASE transaction_type = "buy" ->
                     Buy(portfolio, upper(symbol), quantity, price)
              [] transaction_type = "sell" ->
                     Sell(portfolio, upper(symbol), quantity)
              [] OTHER -> portfolio
    IN IF IsHTTPException(changed)
       THEN changed
       ELSE [changed EXCEPT !.updated_at = now]

\* The request with its number.
Request(route, pid, user, args) ==
    [n |-> Requests + 1, route |-> route, portfolio_id |-> pid, user |-> user,
     args |-> args]

\* A variant that drops the cached results of the portfolios it changed.
AnsweredInvalidating(store, now, request, response) ==
    /\ Requests < MaxRequests
    /\ portfolios_db' = store
    /\ clock' = now
    /\ input' = request
    /\ output' = response
    /\ portfolio_threads' =
           [pid \in DOMAIN portfolio_threads |->
               IF pid \in DOMAIN store /\ store[pid] = portfolios_db[pid]
               THEN portfolio_threads[pid]
               ELSE [portfolio_threads[pid] EXCEPT !.results = EmptyDict]]
    /\ UNCHANGED <<calls, agent_calls, faults, memory, added, agentVars>>

\* A portfolio route answers: the store, the clock, the request and the
\* response after it.  The orchestrator is not involved.
Answered(store, now, request, response) ==
    /\ Requests < MaxRequests
    /\ portfolios_db' = store
    /\ clock' = now
    /\ input' = request
    /\ output' = response
    /\ UNCHANGED <<portfolio_threads, calls, agent_calls, faults, memory, added,
                   agentVars>>

\* POST /{portfolio_id}/transaction
add_transaction(pid, symbol, transaction_type, quantity, price, user) ==
    LET request == Request("transaction", pid, user,
                       <<symbol, transaction_type, quantity, price>>)
    IN IF NotOwned(pid, user)
       THEN Answered(portfolios_db, clock, request,
                     HTTPException(404, "Portfolio not found"))
       ELSE LET result == Transacted(portfolios_db[pid], symbol,
                              transaction_type, quantity, price, clock)
            IN IF IsHTTPException(result)
               THEN Answered(portfolios_db, clock, request, result)
               ELSE Answered([portfolios_db EXCEPT ![pid] = result], clock + 1,
                             request,
                             [message |-> <<transaction_type, quantity,
                                            upper(symbol), price>>,
                              portfolio_id |-> pid])

\* The rows of an uploaded file with the three required columns, and a file
\* without them.
Row(symbol, quantity, average_cost) ==
    [symbol |-> symbol, quantity |-> quantity, average_cost |-> average_cost]

CsvFiles ==
    {[columns |-> TRUE, rows |-> <<Row("tsla", 3, 5)>>],
     [columns |-> FALSE, rows |-> <<>>]}

\* The holdings made from the rows (lines 316-343); the market service has
\* no price, so current_price is the average cost.
CsvHoldings(rows) ==
    [k \in DOMAIN rows |->
        NewHolding(upper(rows[k].symbol), rows[k].quantity, rows[k].average_cost)]

\* POST /{portfolio_id}/upload-csv
upload_portfolio_csv(pid, file, user) ==
    LET request == Request("upload-csv", pid, user, file)
        new_holdings == CsvHoldings(file.rows)
        replaced == PortfolioData(pid, user, new_holdings, clock)
    IN IF NotOwned(pid, user)
       THEN Answered(portfolios_db, clock, request,
                     HTTPException(404, "Portfolio not found"))
       ELSE IF ~file.columns
            THEN Answered(portfolios_db, clock, request,
                          HTTPException(400, "CSV must contain columns"))
            ELSE Answered([portfolios_db EXCEPT ![pid] =
                              [@ EXCEPT !.holdings = new_holdings,
                                        !.total_invested = replaced.total_invested,
                                        !.total_value = replaced.total_value,
                                        !.updated_at = clock]],
                          clock + 1, request,
                          [message |-> Len(new_holdings),
                           total_invested |-> replaced.total_invested,
                           total_value |-> replaced.total_value])

\* GET /{portfolio_id}: the stored holdings (the live prices are left out).
get_portfolio(pid, user) ==
    LET request == Request("get", pid, user, <<>>)
        denied == Access(pid, user)
    IN IF denied # NoReturn
       THEN Answered(portfolios_db, clock, request, denied)
       ELSE Answered(portfolios_db, clock, request,
                     [id |-> pid, name |-> portfolios_db[pid].name,
                      holdings |-> portfolios_db[pid].holdings,
                      total_invested |-> portfolios_db[pid].total_invested])

\* GET /{portfolio_id}/export-csv
export_portfolio_csv(pid, user) ==
    LET request == Request("export-csv", pid, user, <<>>)
    IN IF NotOwned(pid, user)
       THEN Answered(portfolios_db, clock, request,
                     HTTPException(404, "Portfolio not found"))
       ELSE Answered(portfolios_db, clock, request,
                     [filename |-> portfolios_db[pid].name,
                      csv |-> portfolios_db[pid].holdings])

\* DELETE /{portfolio_id}
delete_portfolio(pid, user) ==
    LET request == Request("delete", pid, user, <<>>)
        denied == Access(pid, user)
    IN IF denied # NoReturn
       THEN Answered(portfolios_db, clock, request, denied)
       ELSE Answered([q \in DOMAIN portfolios_db \ {pid} |-> portfolios_db[q]],
                     clock, request,
                     [message |-> "Portfolio deleted successfully"])

\* A route of routes/analysis.py hands the request to the orchestrator
\* with current_user.id; its response is what the call returns.
Forwarded(request) ==
    /\ Requests < MaxRequests
    /\ Len(calls) < MaxCalls
    /\ InFlight < 1
    /\ input' = request
    /\ output' = NoReturn
    /\ UNCHANGED agentVars

\* GET /portfolio/{portfolio_id}/analysis
analysis_route(pid, user) ==
    /\ Forwarded(Request("analysis", pid, user, <<>>))
    /\ BeginAnalysis("analyze", pid, user)

\* GET /portfolio/{portfolio_id}/recommendations
recommendations_route(pid, user) ==
    /\ Forwarded(Request("recommendations", pid, user, <<>>))
    /\ BeginRecommendations(pid, user)

Formats == {"pdf", "html"}

\* GET /portfolio/{portfolio_id}/report, and generate_report, which awaits
\* analyze_portfolio and returns the page in either format.
generate_report(pid, user, format) ==
    /\ Forwarded(Request("report", pid, user, format))
    /\ BeginAnalysis("report", pid, user)

\* The context chat builds from the portfolio (lines 229-238).
ChatContext(pid) ==
    IF pid # "" /\ pid \in DOMAIN portfolios_db
    THEN [name |-> portfolios_db[pid].name,
          total_value |-> portfolios_db[pid].total_value,
          holdings |-> SymbolsOf(portfolios_db[pid])]
    ELSE EmptyResult

ChatMessages == {<<"r", "i", "s", "k">>}

\* POST /chat, and AgentOrchestrator.chat with a portfolio id: the routed
\* agent's think answers from the context.
chat_with_copilot(message, pid, user, backend) ==
    /\ Forwarded(Request("chat", pid, user, message))
    /\ calls' = Append(calls,
           [NewCall("chat", pid) EXCEPT
               !.ret = [kind |-> "chat",
                        agent |-> route_query(message),
                        context |-> ChatContext(pid),
                        response |-> think(llm, backend).text]])
    /\ UNCHANGED <<portfolios_db, portfolio_threads, clock, agent_calls, faults,
                   memory, added>>

RouteIds == {"p1", "p0"}

\* The requests of SpecRoutes: by the owner u1 of p1 and by u2.
PortfolioRoutes ==
    \/ \E user \in Users, type \in {"buy", "sell"} :
           add_transaction("p1", "aapl", type, 2, 10, user)
    \/ \E user \in Users, file \in CsvFiles :
           upload_portfolio_csv("p1", file, user)
    \/ \E pid \in RouteIds, user \in Users : get_portfolio(pid, user)
    \/ \E user \in Users : export_portfolio_csv("p1", user)
    \/ \E pid \in RouteIds, user \in Users : delete_portfolio(pid, user)

AnalysisRoutes ==
    \/ \E pid \in RouteIds, user \in Users : analysis_route(pid, user)
    \/ \E user \in Users : recommendations_route("p1", user)
    \/ \E user \in Users, format \in Formats : generate_report("p1", user, format)
    \/ \E pid \in {"p1", ""}, user \in Users, message \in ChatMessages :
           chat_with_copilot(message, pid, user, "text")

\* The agent calls of SpecRoutes all return: what a request does when one of
\* them raises is studied under Spec.
NextRoutes ==
    \/ PortfolioRoutes
    \/ AnalysisRoutes
    \/ StepsWith({"ok"}, ConcResponses)

InitRoutes == InitWith(RouteStore) /\ IdleAgents /\ IdleFun

SpecRoutes == InitRoutes /\ [][NextRoutes]_vars

----------------------------------------------------------------------------
(* Claims about the routes and the store *)

\* The step belongs to an operation of the orchestrator: a request to it
\* starts, or one of its requests goes on.
OrchestratorStep == calls' # calls

\* The portfolio ids of the requests the step starts or moves.
Moved ==
    {calls'[i].pid : i \in {j \in DOMAIN calls' :
                                j \notin DOMAIN calls \/ calls'[j] # calls[j]}}

\* The AgentState of a portfolio id, NoReturn when there is none.
ThreadOf(threads, pid) ==
    IF pid \in DOMAIN threads THEN threads[pid] ELSE NoReturn

C24_Step ==
    OrchestratorStep =>
        /\ portfolios_db' = portfolios_db
        /\ \A pid \in RouteIds \cup {""} :
               pid \notin Moved =>
                   ThreadOf(portfolio_threads', pid) = ThreadOf(portfolio_threads, pid)
        /\ \A i \in DOMAIN calls' :
               (i \notin DOMAIN calls /\ calls'[i].op = "chat") =>
                   portfolio_threads' = portfolio_threads

\* C24: analyze_portfolio, get_recommendations, chat and generate_report
\* only read the portfolio store: every step of theirs leaves the stored
\* portfolios (holdings and totals) as they were, and the only orchestrator
\* state it writes is the AgentState of the request's own portfolio id
\* (none at all for chat).
C24_StoreReadOnly == [][C24_Step]_vars

\* A report and a chat about p1 were answered after the owner's purchase,
\* and the store is as the purchase left it.
C24_Witness ==
    /\ Len(calls) = 2
    /\ calls[1].op = "report" /\ calls[1].pid = "p1" /\ calls[1].pc = "done"
    /\ calls[1].ret.kind = "html"
    /\ calls[1].ret.generated.kind = "date"
    /\ calls[2].op = "chat" /\ calls[2].pid = "p1"
    /\ calls[2].ret.context # EmptyResult
    /\ calls[2].ret.context.holdings = <<"AAPL">>
    /\ Cached(portfolio_threads, "p1")
    /\ "p1" \in DOMAIN portfolios_db
    /\ portfolios_db["p1"].holdings[1].quantity = 4
    /\ portfolios_db["p1"].total_invested = 40

C28_Step ==
    /\ portfolios_db' # portfolios_db => portfolio_threads' = portfolio_threads
    /\ \A pid \in RouteIds :
           Latest(portfolio_threads', pid) # Latest(portfolio_threads, pid) =>
               \E i \in DOMAIN calls :
                   /\ Returns(i)
                   /\ calls[i].pid = pid
                   /\ calls[i].op \in {"analyze", "recommendations", "report"}
                   /\ Latest(portfolio_threads', pid).kind = "report"
    /\ (Starts /\ calls'[Len(calls')].op = "recommendations") =>
           LET new == calls'[Len(calls')]
           IN (new.pid \in DOMAIN portfolios_db /\ Cached(portfolio_threads, new.pid)) =>
                  /\ new.pc = "done"
                  /\ new.ret.recommendations =
                         Latest(portfolio_threads, new.pid).recommendations
                  /\ agent_calls' = agent_calls
                  /\ portfolio_threads' = portfolio_threads

ForeignRequest ==
    /\ "n" \in DOMAIN input'
    /\ input'.n = Requests + 1
    /\ input'.portfolio_id \in DOMAIN portfolios_db
    /\ portfolios_db[input'.portfolio_id].user_id # input'.user

\* The request is turned away: nothing is stored or started, and the answer
\* is an error.
C29_Step ==
    ForeignRequest =>
        /\ portfolios_db' = portfolios_db
        /\ portfolio_threads' = portfolio_threads
        /\ agent_calls' = agent_calls
        /\ IF Starts
           THEN /\ calls'[Len(calls')].pc = "done"
                /\ calls'[Len(calls')].ret.kind = "error"
           ELSE IsHTTPException(output') /\ output'.status_code \in {403, 404}

\* C29: no authenticated user can read, analyze or modify, through any
\* endpoint that takes a portfolio id, a portfolio owned by another user:
\* the request is rejected and returns no data derived from that portfolio.
C29_OwnerOnly == [][C29_Step]_vars

----------------------------------------------------------------------------
(* Transactions alone: every add_transaction request with a positive       *)
(* quantity.                                                               *)

MaxQuantity == 3  \* the largest quantity of one transaction

Quantities == 1..MaxQuantity

NextTransactions ==
    \E pid \in RouteIds, user \in Users, symbol \in {"aapl", "MSFT"},
       type \in TransactionTypes, quantity \in Quantities :
        add_transaction(pid, symbol, type, quantity, 10, user)

SpecTransactions == InitRoutes /\ [][NextTransactions]_vars

\* The quantity held of a symbol in a portfolio, 0 when it has no holding.
Held(portfolio, symbol) ==
    LET idx == holding_idx(portfolio.holdings, symbol)
    IN IF idx = 0 THEN 0 ELSE portfolio.holdings[idx].quantity

C30_State ==
    \A pid \in DOMAIN portfolios_db :
        \A k \in DOMAIN portfolios_db[pid].holdings :
            portfolios_db[pid].holdings[k].quantity > 0

\* The step is a SELL by the owner for more than the portfolio holds of the
\* symbol (all of it, when the symbol is not held).
Oversold ==
    /\ "n" \in DOMAIN input'
    /\ input'.n = Requests + 1
    /\ input'.route = "transaction"
    /\ input'.args[2] = "sell"
    /\ ~NotOwned(input'.portfolio_id, input'.user)
    /\ Held(portfolios_db[input'.portfolio_id], upper(input'.args[1])) < input'.args[3]

C30_Step ==
    Oversold =>
        /\ IsHTTPException(output')
        /\ output'.status_code = 400
        /\ portfolios_db' = portfolios_db

----------------------------------------------------------------------------
(* Claims about the thread map, checked under SpecConc *)

IsPrefixOf(s, t) == Len(s) <= Len(t) /\ s = SubSeq(t, 1, Len(s))

C27_Step ==
    /\ \A pid \in DOMAIN portfolio_threads :
           /\ pid \in DOMAIN portfolio_threads'
           /\ portfolio_threads'[pid].context = portfolio_threads[pid].context
           /\ IsPrefixOf(portfolio_threads[pid].completed_steps,
                         portfolio_threads'[pid].completed_steps)
    /\ \A pid \in DOMAIN portfolio_threads' :
           pid \notin DOMAIN portfolio_threads =>
               /\ Starts
               /\ calls'[Len(calls')].pid = pid
               /\ portfolio_threads'[pid].context.portfolio_id = pid
               /\ portfolio_threads'[pid].context.created_at = clock
               /\ portfolio_threads'[pid].completed_steps = <<>>
    /\ \A i \in DOMAIN calls :
           (Returns(i) /\ calls'[i].ret # PortfolioNotFound) =>
               /\ DOMAIN portfolio_threads' = DOMAIN portfolio_threads
               /\ portfolio_threads'[calls[i].pid].completed_steps =
                      Append(portfolio_threads[calls[i].pid].completed_steps,
                             "full_analysis")

\* C27: the thread map holds one AgentState per portfolio id and
\* analyze_portfolio never replaces an existing one: a thread is created only
\* by the first request for its id, in the step that looks it up, and every
\* later step, of sequential or overlapping requests, keeps the thread with
\* its context (portfolio_id, user_id, created_at) and only appends to its
\* completed_steps; a returning request writes into the thread that is
\* already there.
C27_OneThreadPerPortfolio == [][C27_Step]_vars

\* Two first requests for p1 overlapped, the second returning before the
\* first: the thread is the one the first created, marked twice.
C27_Witness ==
    /\ Len(calls) = 2
    /\ calls[1].pid = "p1" /\ calls[2].pid = "p1"
    /\ calls[1].op = "analyze" /\ calls[2].op = "analyze"
    /\ calls[1].pc = "done" /\ calls[2].pc = "done"
    /\ calls[2].ret.analysis_date < calls[1].ret.analysis_date
    /\ HasThread(portfolio_threads, "p1")
    /\ portfolio_threads["p1"].context.user_id = "u1"
    /\ portfolio_threads["p1"].context.created_at = 0
    /\ portfolio_threads["p1"].completed_steps = <<"full_analysis", "full_analysis">>
    /\ Latest(portfolio_threads, "p1") = calls[1].ret

----------------------------------------------------------------------------
(* Claims about the branches of one request, checked under Spec *)

\* How far a coroutine has come: created, awaited, ended.
Rank(status) ==
    CASE status \in {"none"} -> 0
      [] status \in {"created", "pending"} -> 1
      [] status = "running" -> 2
      [] OTHER -> 3

C25_Step ==
    /\ agent_calls' # agent_calls =>
           /\ Starts
           /\ calls'[Len(calls')].pc = "gather"
           /\ agent_calls' = agent_calls + Len(calls'[Len(calls')].symbols)
                                         + Cardinality(Branches)
    /\ \A i \in DOMAIN calls :
           /\ calls[i].pc = "done" => calls'[i] = calls[i]
           /\ (calls[i].pc # "done" /\ calls'[i].pc # "done") =>
                  /\ calls'[i].symbols = calls[i].symbols
                  /\ \A k \in DOMAIN calls[i].equity :
                         /\ Rank(calls'[i].equity[k]) >= Rank(calls[i].equity[k])
                         /\ calls[i].equity[k] # "pending" =>
                                calls'[i].equity[k] = calls[i].equity[k]
                  /\ \A b \in Branches :
                         /\ Rank(calls'[i].branch[b]) >= Rank(calls[i].branch[b])
                         /\ Rank(calls'[i].branch[b]) <= Rank(calls[i].branch[b]) + 1
                         /\ calls[i].branch[b] \in Outcomes =>
                                calls'[i].branch[b] = calls[i].branch[b]
           /\ (calls[i].pc \in Branches /\ faults' # faults) =>
                  /\ Returns(i)
                  /\ calls'[i].raised
                  /\ \A b \in Branches :
                         SectionOf(Latest(portfolio_threads', calls[i].pid), b)
                             = EmptyResult

\* C25: within one analyze_portfolio request every agent branch is started
\* at most once: the coroutines are created when the request starts, one per
\* launched holding and one per branch, and none later; a task or branch
\* that has ended is never pending or running again; a failure of an awaited
\* branch ends the request in the same step, with the empty sections.
C25_NoRetry == [][C25_Step]_vars

\* A request one of whose branches raised has returned: nine coroutines
\* were created for it, one call raised, and no section is filled.
C25_Witness ==
    /\ Len(calls) = 1
    /\ calls[1].op = "analyze" /\ calls[1].pid = "p1" /\ calls[1].pc = "done"
    /\ calls[1].raised
    /\ faults = 1
    /\ agent_calls = EquityLimit + Cardinality(Branches)
    /\ calls[1].ret.kind = "report"
    /\ calls[1].ret.risk_assessment = EmptyResult
    /\ calls[1].ret.news_summary = EmptyResult
    /\ calls[1].ret.holdings_analysis = <<>>

----------------------------------------------------------------------------
(* Requests whose downstream calls may never return *)

\* The downstream call of an awaited agent coroutine never returns: the
\* coroutine stays suspended at its await.  Nothing wakes it, since
\* analyze_portfolio sets no timeout and cancels nothing.
Hang(i) ==
    /\ \/ /\ calls[i].pc = "gather"
          /\ \E k \in DOMAIN calls[i].equity :
                 /\ calls[i].equity[k] = "pending"
                 /\ calls' = [calls EXCEPT ![i].equity[k] = "hung"]
       \/ /\ calls[i].pc \in Branches
          /\ calls[i].branch[calls[i].pc] = "running"
          /\ calls' = [calls EXCEPT ![i].branch[calls[i].pc] = "hung"]
    /\ UNCHANGED <<portfolios_db, portfolio_threads, clock, agent_calls, faults,
                   memory, added, agentVars, funVars>>

\* The steps of request i that the event loop runs once the awaited call
\* has returned or raised.
CallSteps(i) ==
    /\ i \in DOMAIN calls
    /\ \/ \E k \in DOMAIN calls[i].equity, o \in Outcomes : EquityTaskDone(i, k, o)
       \/ \E r \in ConcResponses : GatherReturn(i, r)
       \/ \E o \in Outcomes, r \in ConcResponses : BranchDone(i, o, r)

\* The ids requested: p2, which holds one symbol, and the unknown p0.
LiveIds == {"p2", "p0"}

NextLive ==
    \/ \E pid \in LiveIds, uid \in SeqUsers : analyze_portfolio(MaxInFlight, pid, uid)
    \/ \E i \in DOMAIN calls : CallSteps(i)
    \/ \E i \in DOMAIN calls : Hang(i)

\* Every awaited call that has not hung eventually returns or raises, and
\* the event loop then resumes the coroutine that awaits it.
Fairness == \A i \in 1..MaxCalls : WF_vars(CallSteps(i))

SpecLive == InitConc /\ [][NextLive]_vars /\ Fairness

\* Request i awaits a call that never returns.
Hung(i) ==
    /\ i \in DOMAIN calls
    /\ \/ \E k \in DOMAIN calls[i].equity : calls[i].equity[k] = "hung"
       \/ \E b \in Branches : calls[i].branch[b] = "hung"

Pending(i) == i \in DOMAIN calls /\ calls[i].pc # "done"

HasReturned(i) ==
    /\ i \in DOMAIN calls
    /\ calls[i].pc = "done"
    /\ calls[i].ret.kind \in {"report", "error"}

C26_Step ==
    /\ \A i \in DOMAIN calls :
           Hung(i) => /\ Hung(i)'
                      /\ Pending(i)'
                      /\ calls'[i].ret = NoReturn
    /\ \A pid \in LiveIds :
           Latest(portfolio_threads', pid) # Latest(portfolio_threads, pid) =>
               \E i \in DOMAIN calls :
                   /\ calls[i].pid = pid
                   /\ ~Hung(i)
                   /\ Returns(i)

\* C26: if every data-provider and LLM call eventually returns or raises,
\* every analyze_portfolio request eventually returns a report or the
\* not-found error; there is no timeout or cancellation, so a request that
\* awaits a call which never returns stays in flight for ever, returns
\* nothing and stores no result.
C26_ReturnsUnlessHung ==
    /\ \A i \in 1..MaxCalls : ([]~Hung(i)) => (Pending(i) ~> HasReturned(i))
    /\ [][C26_Step]_vars

\* The first request for p2 awaits a risk assessment that never returns;
\* the second, started after it, has returned and stored its report.
C26_Witness ==
    /\ Len(calls) = 2
    /\ calls[1].pid = "p2" /\ calls[1].pc = "risk"
    /\ calls[1].branch["risk"] = "hung"
    /\ calls[1].branch["news"] = "ok"
    /\ calls[1].ret = NoReturn
    /\ calls[2].pid = "p2" /\ calls[2].pc = "done"
    /\ calls[2].ret.kind = "report"
    /\ Latest(portfolio_threads, "p2") = calls[2].ret
    /\ portfolio_threads["p2"].completed_steps = <<"full_analysis">>

====
